---- MODULE Spec2Model ----
(***************************************************************************)
(* HeartChain: the on-chain campaign registry (contract HeartChain), the   *)
(* campaign-creation wizard (CreateCampaignPage) and the API client with   *)
(* its local index (ApiClient).                                            *)
(***************************************************************************)
EXTENDS Integers, Sequences, FiniteSets, TLC

(***************************************************************************)
(* Bounds of the model.                                                    *)
(***************************************************************************)
\* createCampaign is not called once campaignCount has reached this value
MaxCampaigns == 2
\* no call is made once the event log holds this many events
MaxEvents == 3
\* the native currency in circulation: the contract balance cannot exceed it
MaxBalance == 2000
\* no create call is made once the local index holds this many records
MaxIndex == 2
\* no file is added once the form holds this many documents
MaxDocs == 3

(***************************************************************************)
(* State                                                                   *)
(***************************************************************************)
VARIABLES
    \* contract HeartChain
    campaignCount,      \* uint256 public campaignCount
    campaigns,          \* mapping(uint256 => Campaign) public campaigns
    balance,            \* address(this).balance
    events,             \* the events the contract has emitted, oldest first
    tx,                 \* the last transaction: its call, and whether it reverted
    \* ApiClient and the browser
    hasWindow,          \* typeof window !== 'undefined'
    index,              \* localStorage['heartchain_campaigns'], decoded
    apiRet,             \* the last direct call of the client and what it returned
    \* CreateCampaignPage
    currentStep,        \* useState<Step>(1)
    isSubmitting,       \* useState(false)
    error,              \* useState<string | null>(null)
    createdCampaignId,  \* useState<string | null>(null)
    formData,           \* useState<FormData>({...})
    typed,              \* the text in the two <input type="number"> controls
    \* a running handleSubmit
    pc,                 \* where handleSubmit is suspended
    sub,                \* the formData its closure captured
    uploadIdx,          \* i of the upload loop (from 1)
    uploadedDocs,       \* const uploadedDocs = []
    requests,           \* the requests it has sent so far, with their outcome
    redirect,           \* the target of router.push
    \* browser tabs that run saveToLocalIndex on the same localStorage
    tabs,               \* per tab: where saveToLocalIndex is, and its locals
    \* CampaignsPage
    browse,             \* its useState values
    filteredCampaigns,  \* useMemo(() => {...}): the visible campaigns
    detailPage          \* CampaignDetailPage: campaign, apiCampaign, isLoading, error

chainVars == <<campaignCount, campaigns, balance, events, tx>>
apiVars == <<hasWindow, index, apiRet>>
pageVars == <<currentStep, isSubmitting, error, createdCampaignId, formData>>
inputVars == <<typed>>
tabVars == <<tabs>>
browseVars == <<browse, filteredCampaigns, detailPage>>
submitVars == <<pc, sub, uploadIdx, uploadedDocs, requests, redirect>>
vars == <<chainVars, apiVars, pageVars, inputVars, submitVars, tabVars, browseVars>>

(***************************************************************************)
(* Part I.  contract HeartChain                                            *)
(***************************************************************************)
\* externally owned accounts that send transactions; address(0) sends none
Addresses == {"0xA11CE", "0xB0B"}
ZeroAddress == "0x0"
\* arguments of the calls
Goals == {0, 1000}
CIDs == {"cid123", "cid456"}
Payments == {0, 400, 1200}
Ids == 0..(MaxCampaigns + 1)

\* the value of campaigns[id] for a key never written
EmptyCampaign ==
    [creator |-> ZeroAddress, goal |-> 0, raised |-> 0, completed |-> FALSE,
     metadataCID |-> ""]


NoTx ==
    [fn |-> "none", sender |-> ZeroAddress, id |-> 0, goal |-> 0, cid |-> "",
     value |-> 0, ok |-> TRUE, reason |-> ""]

Call(fn, sender, id, goal, cid, value) ==
    [fn |-> fn, sender |-> sender, id |-> id, goal |-> goal, cid |-> cid,
     value |-> value, ok |-> TRUE, reason |-> ""]

\* a failed require: every state change of the call is undone
Revert(call, reason) ==
    /\ tx' = [call EXCEPT !.ok = FALSE, !.reason = reason]
    /\ UNCHANGED <<campaignCount, campaigns, balance, events>>

InitChain ==
    /\ campaignCount = 0
    /\ campaigns = [i \in Ids |-> EmptyCampaign]
    /\ balance = 0
    /\ events = <<>>
    /\ tx = NoTx

\* a createCampaign without its require
GoalOk_Any(goal) == goal >= 0

\* require(_goal > 0, ...) of createCampaign
GoalOk(goal) == goal > 0

\* a createCampaign that writes the new record without campaignCount++
NewCount_NoIncrement == IF campaignCount = 0 THEN 1 ELSE campaignCount

\* campaignCount++ of createCampaign: the value of campaignCount after it
NewCount == campaignCount + 1

\* a new record that starts with raised = goal
NewCampaign_RaisedGoal(sender, goal, cid) ==
    [creator |-> sender, goal |-> goal, raised |-> goal, completed |-> FALSE,
     metadataCID |-> cid]

\* Campaign({creator: msg.sender, goal: _goal, raised: 0, completed: false, ...})
NewCampaign(sender, goal, cid) ==
    [creator |-> sender, goal |-> goal, raised |-> 0, completed |-> FALSE,
     metadataCID |-> cid]

\* function createCampaign(uint256 _goal, string calldata _metadataCID) external
createCampaign(sender, goal, cid) ==
    LET call == Call("createCampaign", sender, 0, goal, cid, 0) IN
    /\ campaignCount < MaxCampaigns
    /\ Len(events) < MaxEvents
    /\ UNCHANGED <<apiVars, pageVars, inputVars, submitVars, tabVars, browseVars>>
    /\ IF ~GoalOk(goal)
       THEN Revert(call, "Goal must be greater than 0")
       ELSE /\ campaignCount' = NewCount
            /\ campaigns' = [campaigns EXCEPT ![NewCount] =
                   NewCampaign(sender, goal, cid)]
            /\ events' = Append(events,
                   [name |-> "CampaignCreated", id |-> NewCount,
                    who |-> sender, amount |-> goal, cid |-> cid])
            /\ tx' = call
            /\ UNCHANGED balance

\* a donate whose range check forgets the lower end
IdOk_NoLowerEnd(id) == id <= campaignCount

\* require(_id > 0 && _id <= campaignCount, ...) of donate
IdOk(id) == id > 0 /\ id <= campaignCount

\* a donate that also closes a campaign once its goal is reached
OpenOk_GoalCapped(id) == ~campaigns[id].completed /\ campaigns[id].raised < campaigns[id].goal

\* require(!campaign.completed, ...) of donate
OpenOk(id) == ~campaigns[id].completed

\* function donate(uint256 _id) external payable
donate(sender, id, value) ==
    LET call == Call("donate", sender, id, 0, "", value) IN
    /\ Len(events) < MaxEvents
    /\ balance + value <= MaxBalance
    /\ UNCHANGED <<apiVars, pageVars, inputVars, submitVars, tabVars, browseVars>>
    /\ IF ~IdOk(id)
       THEN Revert(call, "Invalid campaign ID")
       ELSE IF ~OpenOk(id)
       THEN Revert(call, "Campaign is closed")
       ELSE /\ campaigns' = [campaigns EXCEPT ![id].raised = @ + value]
            /\ balance' = balance + value
            /\ events' = Append(events,
                   [name |-> "DonationReceived", id |-> id, who |-> sender,
                    amount |-> value, cid |-> ""])
            /\ tx' = call
            /\ UNCHANGED campaignCount

\* a completeCampaign that only requires the campaign to exist
CreatorOk_AnyCaller(sender, id) == campaigns[id].creator # ZeroAddress

\* require(msg.sender == campaign.creator, ...) of completeCampaign
CreatorOk(sender, id) == sender = campaigns[id].creator

\* a completeCampaign that pays the raised amount out to the creator
completeCampaign_PaysOut(sender, id) ==
    LET call == Call("completeCampaign", sender, id, 0, "", 0) IN
    /\ Len(events) < MaxEvents
    /\ UNCHANGED <<apiVars, pageVars, inputVars, submitVars, tabVars, browseVars>>
    /\ IF ~CreatorOk(sender, id)
       THEN Revert(call, "Only creator can complete")
       ELSE /\ campaigns' = [campaigns EXCEPT ![id].completed = TRUE]
            /\ events' = Append(events,
                   [name |-> "CampaignCompleted", id |-> id, who |-> ZeroAddress,
                    amount |-> 0, cid |-> ""])
            /\ tx' = call
            /\ balance' = balance - campaigns[id].raised
            /\ UNCHANGED campaignCount

\* function completeCampaign(uint256 _id) external
completeCampaign(sender, id) ==
    LET call == Call("completeCampaign", sender, id, 0, "", 0) IN
    /\ Len(events) < MaxEvents
    /\ UNCHANGED <<apiVars, pageVars, inputVars, submitVars, tabVars, browseVars>>
    /\ IF ~CreatorOk(sender, id)
       THEN Revert(call, "Only creator can complete")
       ELSE /\ campaigns' = [campaigns EXCEPT ![id].completed = TRUE]
            /\ events' = Append(events,
                   [name |-> "CampaignCompleted", id |-> id, who |-> ZeroAddress,
                    amount |-> 0, cid |-> ""])
            /\ tx' = call
            /\ UNCHANGED <<campaignCount, balance>>

NextChain ==
    \/ \E s \in Addresses, g \in Goals, c \in CIDs : createCampaign(s, g, c)
    \/ \E s \in Addresses, i \in Ids, v \in Payments : donate(s, i, v)
    \/ \E s \in Addresses, i \in Ids : completeCampaign(s, i)

(***************************************************************************)
(* Part II.  Strings and numbers of the frontend                           *)
(*                                                                         *)
(* A string the code computes on (length, trim, parseFloat, parseInt) is a *)
(* sequence of one-character strings; a string the code only passes on     *)
(* (messages, file names, content addresses) is a TLA+ string.             *)
(***************************************************************************)
Rep(n, c) == [k \in 1..n |-> c]

Digits == {"0", "1", "2", "3", "4", "5", "6", "7", "8", "9"}

DigitVal(c) ==
    CASE c = "0" -> 0 [] c = "1" -> 1 [] c = "2" -> 2 [] c = "3" -> 3
      [] c = "4" -> 4 [] c = "5" -> 5 [] c = "6" -> 6 [] c = "7" -> 7
      [] c = "8" -> 8 [] c = "9" -> 9

RECURSIVE TrimStart(_)
TrimStart(s) ==
    IF s = <<>> THEN s
    ELSE IF Head(s) = " " THEN TrimStart(Tail(s)) ELSE s

RECURSIVE TrimEnd(_)
TrimEnd(s) ==
    IF s = <<>> THEN s
    ELSE IF s[Len(s)] = " " THEN TrimEnd(SubSeq(s, 1, Len(s) - 1)) ELSE s

\* String.prototype.trim
Trim(s) == TrimEnd(TrimStart(s))

\* a JavaScript number: NaN, or the decimal num / den (den a power of ten);
\* JsonNull is what JSON.stringify writes for NaN
NaN == [kind |-> "NaN", num |-> 0, den |-> 1]
JsonNull == [kind |-> "null", num |-> 0, den |-> 1]
Num(n) == [kind |-> "number", num |-> n, den |-> 1]

\* the longest prefix of s made of digits
RECURSIVE DigitPrefix(_)
DigitPrefix(s) ==
    IF s = <<>> \/ Head(s) \notin Digits THEN <<>>
    ELSE <<Head(s)>> \o DigitPrefix(Tail(s))

RECURSIVE DigitsValue(_)
DigitsValue(ds) ==
    IF ds = <<>> THEN 0
    ELSE 10 * DigitsValue(SubSeq(ds, 1, Len(ds) - 1)) + DigitVal(ds[Len(ds)])

RECURSIVE Pow10(_)
Pow10(n) == IF n = 0 THEN 1 ELSE 10 * Pow10(n - 1)

\* the sign of a numeric literal and the text after it
SignOf(t) == IF t # <<>> /\ Head(t) = "-" THEN -1 ELSE 1
Unsigned(t) == IF t # <<>> /\ Head(t) \in {"-", "+"} THEN Tail(t) ELSE t

\* parseFloat, on strings without an exponent part: leading white space,
\* a sign, digits, a fraction; whatever follows is ignored; NaN when no
\* digit is found
parseFloat(s) ==
    LET t    == TrimStart(s)
        u    == Unsigned(t)
        ip   == DigitPrefix(u)
        rest == SubSeq(u, Len(ip) + 1, Len(u))
        fp   == IF rest # <<>> /\ Head(rest) = "." THEN DigitPrefix(Tail(rest))
                ELSE <<>>
    IN  IF ip = <<>> /\ fp = <<>> THEN NaN
        ELSE [kind |-> "number",
              num |-> SignOf(t) * (DigitsValue(ip) * Pow10(Len(fp)) + DigitsValue(fp)),
              den |-> Pow10(Len(fp))]

\* parseInt with radix 10: leading white space, a sign, digits; NaN when
\* no digit is found
parseInt(s) ==
    LET t  == TrimStart(s)
        u  == Unsigned(t)
        ip == DigitPrefix(u)
    IN  IF ip = <<>> THEN NaN ELSE Num(SignOf(t) * DigitsValue(ip))

\* x <= 0 in JavaScript: false for NaN
LeqZero(x) == x.kind = "number" /\ x.num <= 0

(***************************************************************************)
(* Part III.  ApiClient and the local index                                *)
(***************************************************************************)
\* absent values of fields that hold a TLA+ string
Null == "<null>"
Undefined == "<undefined>"

\* new Date().toISOString(), as read by a create call
Times == {"2026-01-01T00:00:00.000Z", "2026-01-02T00:00:00.000Z"}

\* responses of the backend to a create request
TxHashes == {"0xfeed"}
OkResponses ==
    {[ok |-> TRUE, status |-> "200", decodable |-> TRUE, detail |-> "",
      tx_hash |-> h, cid |-> c] : h \in TxHashes, c \in CIDs}
FailResponses ==
    {[ok |-> FALSE, status |-> "422", decodable |-> TRUE,
      detail |-> "Campaign rejected", tx_hash |-> "", cid |-> ""],
     [ok |-> FALSE, status |-> "404", decodable |-> TRUE, detail |-> "",
      tx_hash |-> "", cid |-> ""],
     [ok |-> FALSE, status |-> "500", decodable |-> FALSE, detail |-> "",
      tx_hash |-> "", cid |-> ""]}
Responses == OkResponses \cup FailResponses

\* JSON.stringify of a number
JsonNum(x) == IF x.kind = "NaN" THEN JsonNull ELSE x

\* body: JSON.stringify(data) of a create request
JsonRequest(data) ==
    [data EXCEPT !.target_amount = JsonNum(@), !.duration_days = JsonNum(@)]

\* a request<T> that falls back to the generic message, not to the status
ErrorMessage_NoStatus(resp) ==
    IF resp.decodable /\ resp.detail # "" THEN resp.detail ELSE "An error occurred"

\* request<T>: the message of the Error thrown for a response that is not ok
ErrorMessage(resp) ==
    LET detail == IF resp.decodable THEN resp.detail ELSE "An error occurred"
    IN  IF detail # "" THEN detail ELSE "HTTP " \o resp.status

\* request<T>: the value returned for a response that is ok
CreateResponse(resp) == [tx_hash |-> resp.tx_hash, cid |-> resp.cid, status |-> "success"]

\* a createIndividualCampaign that takes raised_amount from the target
IndividualRecord_RaisedTarget(data, res, now) ==
    [id |-> res.cid, cid |-> res.cid, campaign_type |-> "individual",
     title |-> data.title, description |-> data.description,
     target_amount |-> data.target_amount, raised_amount |-> data.target_amount,
     duration_days |-> data.duration_days, category |-> data.category,
     priority |-> IF data.priority \in {Undefined, ""} THEN "normal" ELSE data.priority,
     status |-> "active",
     image_url |-> IF data.image_url \in {Undefined, ""} THEN Null ELSE data.image_url,
     created_at |-> now, blockchain_tx_hash |-> res.tx_hash]

\* the MockCampaign createIndividualCampaign passes to saveToLocalIndex
IndividualRecord(data, res, now) ==
    [id |-> res.cid, cid |-> res.cid, campaign_type |-> "individual",
     title |-> data.title, description |-> data.description,
     target_amount |-> data.target_amount, raised_amount |-> Num(0),
     duration_days |-> data.duration_days, category |-> data.category,
     priority |-> IF data.priority \in {Undefined, ""} THEN "normal" ELSE data.priority,
     status |-> "active",
     image_url |-> IF data.image_url \in {Undefined, ""} THEN Null ELSE data.image_url,
     created_at |-> now, blockchain_tx_hash |-> res.tx_hash]

\* the MockCampaign createCharityCampaign passes to saveToLocalIndex
CharityRecord(data, res, now) ==
    [id |-> res.cid, cid |-> res.cid, campaign_type |-> "charity",
     title |-> data.title, description |-> data.description,
     target_amount |-> data.target_amount, raised_amount |-> Num(0),
     duration_days |-> data.duration_days, category |-> data.category,
     priority |-> IF data.priority \in {Undefined, ""} THEN "normal" ELSE data.priority,
     status |-> "active",
     image_url |-> IF data.image_url \in {Undefined, ""} THEN Null ELSE data.image_url,
     organization_name |-> data.organization_name,
     created_at |-> now, blockchain_tx_hash |-> res.tx_hash]

\* JSON.parse(JSON.stringify(campaign))
JsonCampaign(c) ==
    [c EXCEPT !.target_amount = JsonNum(@), !.duration_days = JsonNum(@)]

\* a saveToLocalIndex that adds the record at the end (push for unshift)
saveToLocalIndex_Push(campaign) ==
    IF hasWindow THEN index \o <<JsonCampaign(campaign)>> ELSE index

\* a saveToLocalIndex that replaces the stored records of the same id
saveToLocalIndex_Upsert(campaign) ==
    IF hasWindow
    THEN <<JsonCampaign(campaign)>> \o SelectSeq(index, LAMBDA c : c.id # campaign.id)
    ELSE index

\* saveToLocalIndex: the stored collection after the call
saveToLocalIndex(campaign) ==
    IF hasWindow THEN <<JsonCampaign(campaign)>> \o index ELSE index

\* the record and the endpoint of the two create calls
RecordOf(variant, data, res, now) ==
    IF variant = "individual" THEN IndividualRecord(data, res, now)
    ELSE CharityRecord(data, res, now)

EndpointOf(variant) ==
    IF variant = "individual" THEN "/campaigns/individual" ELSE "/campaigns/charity"

CreateFn(variant) ==
    IF variant = "individual" THEN "createIndividualCampaign"
    ELSE "createCharityCampaign"

NoCall == [fn |-> "none", arg |-> "", resp |-> Null, ok |-> TRUE, value |-> "",
           error |-> ""]

\* createIndividualCampaign(data) / createCharityCampaign(data), called
\* directly, with the response and the clock reading it meets
create(variant, data, resp, now) ==
    /\ Len(index) < MaxIndex
    /\ IF resp.ok
       THEN /\ index' = saveToLocalIndex(RecordOf(variant, data, CreateResponse(resp), now))
            /\ apiRet' = [fn |-> CreateFn(variant),
                          arg |-> [endpoint |-> EndpointOf(variant),
                                   body |-> JsonRequest(data)],
                          resp |-> resp,
                          ok |-> TRUE, value |-> CreateResponse(resp), error |-> ""]
       ELSE /\ index' = index
            /\ apiRet' = [fn |-> CreateFn(variant),
                          arg |-> [endpoint |-> EndpointOf(variant),
                                   body |-> JsonRequest(data)],
                          resp |-> resp,
                          ok |-> FALSE, value |-> "", error |-> ErrorMessage(resp)]
    /\ UNCHANGED <<hasWindow, chainVars, pageVars, inputVars, submitVars, tabVars, browseVars>>

\* a getCampaigns that forgets the category filter
FilterCampaigns_TypeOnly(params) ==
    IF params.campaign_type # ""
    THEN SelectSeq(index, LAMBDA c : c.campaign_type = params.campaign_type)
    ELSE index

\* getCampaigns(params): params.campaign_type and params.category, "" when absent
FilterCampaigns(params) ==
    LET byType == IF params.campaign_type # ""
                  THEN SelectSeq(index, LAMBDA c : c.campaign_type = params.campaign_type)
                  ELSE index
    IN  IF params.category # ""
        THEN SelectSeq(byType, LAMBDA c : c.category = params.category)
        ELSE byType

\* a getCampaigns that keeps the narrowed collection as the stored one
getCampaigns_StoresFiltered(params) ==
    /\ apiRet' = [fn |-> "getCampaigns", arg |-> params, resp |-> Null, ok |-> TRUE,
                  value |-> IF hasWindow THEN FilterCampaigns(params) ELSE <<>>,
                  error |-> ""]
    /\ index' = IF hasWindow THEN FilterCampaigns(params) ELSE index
    /\ UNCHANGED <<hasWindow, chainVars, pageVars, inputVars, submitVars, tabVars, browseVars>>

getCampaigns(params) ==
    /\ apiRet' = [fn |-> "getCampaigns", arg |-> params, resp |-> Null, ok |-> TRUE,
                  value |-> IF hasWindow THEN FilterCampaigns(params) ELSE <<>>,
                  error |-> ""]
    /\ UNCHANGED <<hasWindow, index, chainVars, pageVars, inputVars, submitVars, tabVars, browseVars>>

\* campaigns.find(c => c.id === id) || null
FindCampaign(id) ==
    IF \E k \in 1..Len(index) : index[k].id = id
    THEN index[CHOOSE k \in 1..Len(index) :
                  /\ index[k].id = id
                  /\ \A j \in 1..(k - 1) : index[j].id # id]
    ELSE Null

getCampaign(id) ==
    /\ apiRet' = [fn |-> "getCampaign", arg |-> id, resp |-> Null, ok |-> TRUE,
                  value |-> IF hasWindow THEN FindCampaign(id) ELSE Null,
                  error |-> ""]
    /\ UNCHANGED <<hasWindow, index, chainVars, pageVars, inputVars, submitVars, tabVars, browseVars>>

(***************************************************************************)
(* saveToLocalIndex in several tabs of one browser.  The tabs share the    *)
(* stored collection; nothing orders the getItem of one tab and the        *)
(* setItem of another.                                                     *)
(***************************************************************************)
Tabs == {1, 2}

\* a tab that is not inside saveToLocalIndex
TabIdle == [at |-> "idle", existing |-> <<>>, campaign |-> Null, saved |-> 0]

\* the create call of tab t has got its response and calls saveToLocalIndex:
\* const existing = JSON.parse(localStorage.getItem(...) || '[]')
TabRead(t, variant, data, resp, now) ==
    /\ hasWindow
    /\ resp.ok
    /\ tabs[t].at = "idle"
    /\ Len(index) < MaxIndex
    /\ tabs' = [tabs EXCEPT ![t] =
           [at |-> "read", existing |-> index,
            campaign |-> RecordOf(variant, data, CreateResponse(resp), now),
            saved |-> tabs[t].saved]]
    /\ UNCHANGED <<apiVars, chainVars, pageVars, inputVars, submitVars, browseVars>>

\* a saveToLocalIndex that reads the stored collection again when it writes
TabWrite_ReadsAgain(t) ==
    /\ tabs[t].at = "read"
    /\ index' = <<JsonCampaign(tabs[t].campaign)>> \o index
    /\ tabs' = [tabs EXCEPT ![t] = [TabIdle EXCEPT !.saved = tabs[t].saved + 1]]
    /\ UNCHANGED <<hasWindow, apiRet>>
    /\ UNCHANGED <<chainVars, pageVars, inputVars, submitVars, browseVars>>

\* existing.unshift(campaign); localStorage.setItem(..., JSON.stringify(existing))
TabWrite(t) ==
    /\ tabs[t].at = "read"
    /\ index' = <<JsonCampaign(tabs[t].campaign)>> \o tabs[t].existing
    /\ tabs' = [tabs EXCEPT ![t] = [TabIdle EXCEPT !.saved = tabs[t].saved + 1]]
    /\ UNCHANGED <<hasWindow, apiRet>>
    /\ UNCHANGED <<chainVars, pageVars, inputVars, submitVars, browseVars>>

InitTabs == tabs = [t \in Tabs |-> TabIdle]

(***************************************************************************)
(* Part IV.  The campaign-creation wizard (CreateCampaignPage)             *)
(***************************************************************************)

\* the initial FormData
InitialFormData ==
    [campaignType |-> "",
     title |-> <<>>, category |-> "", targetAmount |-> <<>>,
     durationDays |-> <<"9", "0">>,
     description |-> <<>>, imageUrl |-> "", impactPlan |-> <<>>,
     beneficiaryName |-> <<>>, phoneNumber |-> <<>>, residentialAddress |-> <<>>,
     organizationName |-> <<>>, contactPersonName |-> <<>>,
     contactPhoneNumber |-> <<>>, officialAddress |-> <<>>,
     documents |-> <<>>, documentTypes |-> <<>>]

\* a validateStep whose basic-info checks look at the category before the title
Step1Error_CategoryFirst(fd) ==
    IF fd.campaignType = "" THEN "Please select a campaign type"
    ELSE IF fd.category = "" THEN "Please select a category"
    ELSE IF Trim(fd.title) = <<>> \/ Len(fd.title) < 3
    THEN "Title must be at least 3 characters"
    ELSE IF fd.targetAmount = <<>> \/ LeqZero(parseFloat(fd.targetAmount))
    THEN "Please enter a valid target amount"
    ELSE IF fd.campaignType = "individual"
    THEN IF Trim(fd.beneficiaryName) = <<>> THEN "Beneficiary name is required"
         ELSE IF Trim(fd.phoneNumber) = <<>> \/ Len(fd.phoneNumber) < 10
                 \/ Len(fd.phoneNumber) > 20
         THEN "Phone number must be between 10 and 20 characters"
         ELSE IF Trim(fd.residentialAddress) = <<>> \/ Len(fd.residentialAddress) < 5
         THEN "Residential address must be at least 5 characters"
         ELSE Null
    ELSE IF Trim(fd.organizationName) = <<>> THEN "Organization name is required"
         ELSE IF Trim(fd.contactPersonName) = <<>> THEN "Contact person name is required"
         ELSE IF Trim(fd.contactPhoneNumber) = <<>> \/ Len(fd.contactPhoneNumber) < 10
                 \/ Len(fd.contactPhoneNumber) > 20
         THEN "Phone number must be between 10 and 20 characters"
         ELSE IF Trim(fd.officialAddress) = <<>> \/ Len(fd.officialAddress) < 5
         THEN "Official address must be at least 5 characters"
         ELSE Null

\* validateStep, case 1: the message of the check that fails, Null when none
Step1Error(fd) ==
    IF fd.campaignType = "" THEN "Please select a campaign type"
    ELSE IF Trim(fd.title) = <<>> \/ Len(fd.title) < 3
    THEN "Title must be at least 3 characters"
    ELSE IF fd.category = "" THEN "Please select a category"
    ELSE IF fd.targetAmount = <<>> \/ LeqZero(parseFloat(fd.targetAmount))
    THEN "Please enter a valid target amount"
    ELSE IF fd.campaignType = "individual"
    THEN IF Trim(fd.beneficiaryName) = <<>> THEN "Beneficiary name is required"
         ELSE IF Trim(fd.phoneNumber) = <<>> \/ Len(fd.phoneNumber) < 10
                 \/ Len(fd.phoneNumber) > 20
         THEN "Phone number must be between 10 and 20 characters"
         ELSE IF Trim(fd.residentialAddress) = <<>> \/ Len(fd.residentialAddress) < 5
         THEN "Residential address must be at least 5 characters"
         ELSE Null
    ELSE IF Trim(fd.organizationName) = <<>> THEN "Organization name is required"
         ELSE IF Trim(fd.contactPersonName) = <<>> THEN "Contact person name is required"
         ELSE IF Trim(fd.contactPhoneNumber) = <<>> \/ Len(fd.contactPhoneNumber) < 10
                 \/ Len(fd.contactPhoneNumber) > 20
         THEN "Phone number must be between 10 and 20 characters"
         ELSE IF Trim(fd.officialAddress) = <<>> \/ Len(fd.officialAddress) < 5
         THEN "Official address must be at least 5 characters"
         ELSE Null

\* validateStep, case 2
Step2Error(fd) ==
    IF Trim(fd.description) = <<>> \/ Len(fd.description) < 10
    THEN "Description must be at least 10 characters"
    ELSE Null

\* validateStep(step): the message it sets, Null when it returns true
validateStep(step, fd) ==
    CASE step = 1 -> Step1Error(fd)
      [] step = 2 -> Step2Error(fd)
      [] step = 3 -> Null
      [] step = 4 -> Null
      [] OTHER -> Null

\* what renderStep shows: the step and the campaign type under which the
\* input of a field is on the page
Rendered(field) ==
    CASE field = "campaignType" -> currentStep = 1
      [] field \in {"title", "category", "targetAmount", "durationDays"} ->
            currentStep = 1 /\ formData.campaignType # ""
      [] field \in {"beneficiaryName", "phoneNumber", "residentialAddress"} ->
            currentStep = 1 /\ formData.campaignType = "individual"
      [] field \in {"organizationName", "contactPersonName",
                    "contactPhoneNumber", "officialAddress"} ->
            currentStep = 1 /\ formData.campaignType = "charity"
      [] field \in {"description", "imageUrl"} -> currentStep = 2
      [] field = "impactPlan" -> currentStep = 3
      [] field \in {"documents", "documentTypes"} -> currentStep = 4

\* the page is shown until router.push leaves it
Mounted == pc # "redirected"

\* updateField(field, value)
updateField(field, value) ==
    /\ formData' = [formData EXCEPT ![field] = value]
    /\ error' = Null
    /\ UNCHANGED <<currentStep, isSubmitting, createdCampaignId>>
    /\ UNCHANGED <<submitVars, apiVars, chainVars, tabVars, browseVars>>

\* the fields whose input is an <input type="number">
NumberFields == {"targetAmount", "durationDays"}

\* a text is a valid floating-point number of HTML (texts without an
\* exponent part): an optional "-", digits, an optional fraction
IsDigits(s) == s # <<>> /\ \A k \in 1..Len(s) : s[k] \in Digits

ValidFloat(s) ==
    LET u    == IF s # <<>> /\ Head(s) = "-" THEN Tail(s) ELSE s
        ip   == DigitPrefix(u)
        rest == SubSeq(u, Len(ip) + 1, Len(u))
    IN  \/ ip # <<>> /\ rest = <<>>
        \/ rest # <<>> /\ Head(rest) = "." /\ IsDigits(Tail(rest))

\* an input of type "text" in place of type "number"
NumberInputValue_Text(text) == text

\* e.target.value of an <input type="number"> that shows text: the text
\* when it is a valid floating-point number, '' otherwise
NumberInputValue(text) == IF ValidFloat(text) THEN text ELSE <<>>

\* e.target.value of the input of a field that shows text
InputValue(field, text) ==
    IF field \in NumberFields THEN NumberInputValue(text) ELSE text

\* the user changes the input of a field that is on the page
Edit(field, text) ==
    /\ Mounted
    /\ Rendered(field)
    /\ typed' = IF field \in NumberFields THEN [typed EXCEPT ![field] = text]
                ELSE typed
    /\ updateField(field, InputValue(field, text))

\* a nextStep that advances whatever validateStep returns
nextStep_IgnoresValidation ==
    /\ LET msg == validateStep(currentStep, formData) IN
         /\ currentStep' = IF currentStep < 5 THEN currentStep + 1 ELSE currentStep
         /\ error' = IF msg = Null THEN error ELSE msg
    /\ UNCHANGED <<isSubmitting, createdCampaignId, formData>>
    /\ UNCHANGED <<submitVars, apiVars, chainVars, inputVars, tabVars, browseVars>>

\* const nextStep = () => {...}
nextStep ==
    /\ LET msg == validateStep(currentStep, formData) IN
         IF msg = Null
         THEN /\ currentStep' = IF currentStep < 5 THEN currentStep + 1 ELSE currentStep
              /\ error' = error
         ELSE /\ currentStep' = currentStep
              /\ error' = msg
    /\ UNCHANGED <<isSubmitting, createdCampaignId, formData>>
    /\ UNCHANGED <<submitVars, apiVars, chainVars, inputVars, tabVars, browseVars>>

\* a prevStep that leaves the error message on the page
prevStep_KeepsError ==
    /\ currentStep' = IF currentStep > 1 THEN currentStep - 1 ELSE currentStep
    /\ error' = error
    /\ UNCHANGED <<isSubmitting, createdCampaignId, formData>>
    /\ UNCHANGED <<submitVars, apiVars, chainVars, inputVars, tabVars, browseVars>>

\* const prevStep = () => {...}
prevStep ==
    /\ currentStep' = IF currentStep > 1 THEN currentStep - 1 ELSE currentStep
    /\ error' = Null
    /\ UNCHANGED <<isSubmitting, createdCampaignId, formData>>
    /\ UNCHANGED <<submitVars, apiVars, chainVars, inputVars, tabVars, browseVars>>

\* the Continue button, shown while currentStep < 5
ClickNext == Mounted /\ currentStep < 5 /\ nextStep

\* the Back button, disabled at step 1
ClickBack == Mounted /\ currentStep > 1 /\ prevStep

\* handleFileChange with the files the user picked
handleFileChange(fileArray) ==
    /\ Mounted
    /\ Rendered("documents")
    /\ Len(formData.documents) + Len(fileArray) <= MaxDocs
    /\ formData' = [formData EXCEPT
           !.documents = @ \o fileArray,
           !.documentTypes = @ \o [k \in 1..Len(fileArray) |-> "other"]]
    /\ error' = Null
    /\ UNCHANGED <<currentStep, isSubmitting, createdCampaignId>>
    /\ UNCHANGED <<submitVars, apiVars, chainVars, inputVars, tabVars, browseVars>>

\* Array.prototype.splice(index, 1): pos is index, counted from 1
Splice(a, pos) ==
    [k \in 1..(Len(a) - (IF pos <= Len(a) THEN 1 ELSE 0)) |->
        IF k < pos THEN a[k] ELSE a[k + 1]]

\* a removeDocument that drops the last document type, not the one at index
removeDocument_LastType(pos) ==
    /\ Mounted
    /\ Rendered("documents")
    /\ pos \in 1..Len(formData.documents)
    /\ formData' = [formData EXCEPT
           !.documents = Splice(@, pos),
           !.documentTypes = SubSeq(@, 1, Len(@) - 1)]
    /\ error' = Null
    /\ UNCHANGED <<currentStep, isSubmitting, createdCampaignId>>
    /\ UNCHANGED <<submitVars, apiVars, chainVars, inputVars, tabVars, browseVars>>

\* removeDocument(index) of a listed document
removeDocument(pos) ==
    /\ Mounted
    /\ Rendered("documents")
    /\ pos \in 1..Len(formData.documents)
    /\ formData' = [formData EXCEPT
           !.documents = Splice(@, pos),
           !.documentTypes = Splice(@, pos)]
    /\ error' = Null
    /\ UNCHANGED <<currentStep, isSubmitting, createdCampaignId>>
    /\ UNCHANGED <<submitVars, apiVars, chainVars, inputVars, tabVars, browseVars>>

INDIVIDUAL_DOCUMENT_TYPES ==
    {"medical_bill", "doctor_prescription", "hospital_letter", "id_proof", "other"}
CHARITY_DOCUMENT_TYPES == {"ngo_certificate", "license", "trust_deed", "other"}

\* the options of the document type select
documentTypeOptions ==
    IF formData.campaignType = "individual" THEN INDIVIDUAL_DOCUMENT_TYPES
    ELSE CHARITY_DOCUMENT_TYPES

\* newTypes[index] = type: pos is index, counted from 1
SetAt(a, pos, v) ==
    [k \in 1..(IF pos > Len(a) THEN pos ELSE Len(a)) |->
        IF k = pos THEN v ELSE IF k <= Len(a) THEN a[k] ELSE Undefined]

\* updateDocumentType(index, type) from the select of a listed document
updateDocumentType(pos, type) ==
    /\ Mounted
    /\ Rendered("documentTypes")
    /\ pos \in 1..Len(formData.documents)
    /\ type \in documentTypeOptions
    /\ formData' = [formData EXCEPT !.documentTypes = SetAt(@, pos, type)]
    /\ error' = Null
    /\ UNCHANGED <<currentStep, isSubmitting, createdCampaignId>>
    /\ UNCHANGED <<submitVars, apiVars, chainVars, inputVars, tabVars, browseVars>>

(***************************************************************************)
(* handleSubmit.  It runs up to its first await, and again from each await *)
(* that resolves or rejects; fd is the formData its closure captured.      *)
(***************************************************************************)
\* the text between description and impactPlan
FundsHeader ==
    <<"\n", "\n", "-", "-", "-", "\n", "\n", "*", "*", "H", "o", "w", " ",
    "F", "u", "n", "d", "s", " ", "W", "i", "l", "l", " ", "B", "e", " ",
    "U", "s", "e", "d", ":", "*", "*", "\n">>

\* fullDescription
FullDescription(fd) ==
    IF fd.impactPlan # <<>> THEN fd.description \o FundsHeader \o fd.impactPlan
    ELSE fd.description

\* the payload of the individual branch
IndividualPayload(fd, docs) ==
    [title |-> fd.title, description |-> FullDescription(fd),
     target_amount |-> parseFloat(fd.targetAmount),
     duration_days |-> parseInt(fd.durationDays),
     category |-> fd.category, priority |-> "normal",
     image_url |-> IF fd.imageUrl = "" THEN Undefined ELSE fd.imageUrl,
     beneficiary_name |-> fd.beneficiaryName, phone_number |-> fd.phoneNumber,
     residential_address |-> fd.residentialAddress, documents |-> docs]

\* the payload of the else branch
CharityPayload(fd, docs) ==
    [title |-> fd.title, description |-> FullDescription(fd),
     target_amount |-> parseFloat(fd.targetAmount),
     duration_days |-> parseInt(fd.durationDays),
     category |-> fd.category, priority |-> "normal",
     image_url |-> IF fd.imageUrl = "" THEN Undefined ELSE fd.imageUrl,
     organization_name |-> fd.organizationName,
     contact_person_name |-> fd.contactPersonName,
     contact_phone_number |-> fd.contactPhoneNumber,
     official_address |-> fd.officialAddress, documents |-> docs]

\* if (formData.campaignType === 'individual') ... else ...
VariantOf(fd) == IF fd.campaignType = "individual" THEN "individual" ELSE "charity"

PayloadOf(fd, docs) ==
    IF fd.campaignType = "individual" THEN IndividualPayload(fd, docs)
    ELSE CharityPayload(fd, docs)

\* the fetch of the create call
CreateRequest(fd, docs) ==
    [endpoint |-> EndpointOf(VariantOf(fd)),
     body |-> JsonRequest(PayloadOf(fd, docs)), status |-> "pending"]

\* formData.documentTypes[i] || 'other'
DocTypeAt(fd, k) ==
    IF k <= Len(fd.documentTypes) /\ fd.documentTypes[k] \notin {Undefined, ""}
    THEN fd.documentTypes[k] ELSE "other"

\* the fetch of uploadDocument for document k
UploadRequest(fd, k) ==
    [endpoint |-> "/documents/upload",
     body |-> [document |-> fd.documents[k], document_type |-> DocTypeAt(fd, k)],
     status |-> "pending"]

\* the CampaignDocument the backend answers an upload with
UploadResult(req) ==
    [ipfs_hash |-> "Qm" \o req.body.document,
     document_type |-> req.body.document_type,
     filename |-> req.body.document, mime_type |-> "application/pdf"]

\* the requests, with the outcome of the one in flight filled in
Settled(status) == [requests EXCEPT ![Len(requests)].status = status]

\* the formData of the render in which handleSubmit was created, as far as
\* handleSubmit reads it: the fields of the other campaign type are left out
Captured(fd) ==
    IF fd.campaignType = "individual"
    THEN [fd EXCEPT !.organizationName = <<>>, !.contactPersonName = <<>>,
                    !.contactPhoneNumber = <<>>, !.officialAddress = <<>>]
    ELSE [fd EXCEPT !.beneficiaryName = <<>>, !.phoneNumber = <<>>,
                    !.residentialAddress = <<>>]

\* handleSubmit has returned: its locals are gone
Returned ==
    /\ pc' \in {"idle", "redirected"}
    /\ sub' = InitialFormData
    /\ uploadIdx' = 0
    /\ uploadedDocs' = <<>>
    /\ requests' = <<>>

\* const handleSubmit = async () => {...}: from the click to the first await
handleSubmit ==
    /\ Mounted
    /\ currentStep = 5
    /\ ~isSubmitting
    /\ isSubmitting' = TRUE
    /\ error' = Null
    /\ sub' = Captured(formData)
    /\ uploadedDocs' = <<>>
    /\ IF Len(formData.documents) > 0
       THEN /\ uploadIdx' = 1
            /\ requests' = <<UploadRequest(Captured(formData), 1)>>
            /\ pc' = "uploading"
       ELSE /\ uploadIdx' = 0
            /\ requests' = <<CreateRequest(Captured(formData), <<>>)>>
            /\ pc' = "creating"
    /\ UNCHANGED <<currentStep, createdCampaignId, formData, redirect>>
    /\ UNCHANGED <<apiVars, chainVars, inputVars, tabVars, browseVars>>

\* the loop goes on after document uploadIdx: the next upload, or the create call
ContinueLoop(settled, docs) ==
    /\ uploadedDocs' = docs
    /\ IF uploadIdx < Len(sub.documents)
       THEN /\ uploadIdx' = uploadIdx + 1
            /\ requests' = Append(settled, UploadRequest(sub, uploadIdx + 1))
            /\ pc' = "uploading"
       ELSE /\ uploadIdx' = uploadIdx
            /\ requests' = Append(settled, CreateRequest(sub, docs))
            /\ pc' = "creating"
    /\ UNCHANGED <<sub, redirect, pageVars, apiVars, chainVars, inputVars, tabVars, browseVars>>

\* a handleSubmit that puts each upload result in front of the earlier ones
UploadResolved_Unshift ==
    /\ pc = "uploading"
    /\ ContinueLoop(Settled("ok"),
                    <<UploadResult(requests[Len(requests)])>> \o uploadedDocs)

\* await api.uploadDocument(file, docType) resolves
UploadResolved ==
    /\ pc = "uploading"
    /\ ContinueLoop(Settled("ok"),
                    Append(uploadedDocs, UploadResult(requests[Len(requests)])))

\* a handleSubmit that logs a failed upload and goes on with the next document
UploadRejected_Continue ==
    /\ pc = "uploading"
    /\ ContinueLoop(Settled("failed"), uploadedDocs)

\* await api.uploadDocument(file, docType) rejects: the inner catch throws,
\* the outer catch sets the error, finally clears isSubmitting
UploadRejected ==
    /\ pc = "uploading"
    /\ error' = "Failed to upload document: " \o sub.documents[uploadIdx]
    /\ isSubmitting' = FALSE
    /\ pc' = "idle"
    /\ Returned
    /\ UNCHANGED <<currentStep, createdCampaignId, formData, redirect>>
    /\ UNCHANGED <<apiVars, chainVars, inputVars, tabVars, browseVars>>

\* await api.create...Campaign(payload) resolves: the record is saved, the
\* page redirects
CreateResolved(resp, now) ==
    /\ pc = "creating"
    /\ resp.ok
    /\ index' = saveToLocalIndex(RecordOf(VariantOf(sub), PayloadOf(sub, uploadedDocs),
                                          CreateResponse(resp), now))
    /\ createdCampaignId' = resp.cid
    /\ redirect' = "/campaigns/" \o resp.cid \o "?created=true&tx=" \o resp.tx_hash
    /\ isSubmitting' = FALSE
    /\ pc' = "redirected"
    /\ Returned
    /\ UNCHANGED <<currentStep, error, formData>>
    /\ UNCHANGED <<hasWindow, apiRet, chainVars, inputVars, tabVars, browseVars>>

\* a handleSubmit without its finally: a rejected create call leaves
\* isSubmitting set
CreateRejected_NoFinally(resp) ==
    /\ pc = "creating"
    /\ ~resp.ok
    /\ error' = ErrorMessage(resp)
    /\ isSubmitting' = isSubmitting
    /\ pc' = "idle"
    /\ Returned
    /\ UNCHANGED <<currentStep, createdCampaignId, formData, redirect>>
    /\ UNCHANGED <<apiVars, chainVars, inputVars, tabVars, browseVars>>

\* await api.create...Campaign(payload) rejects
CreateRejected(resp) ==
    /\ pc = "creating"
    /\ ~resp.ok
    /\ error' = ErrorMessage(resp)
    /\ isSubmitting' = FALSE
    /\ pc' = "idle"
    /\ Returned
    /\ UNCHANGED <<currentStep, createdCampaignId, formData, redirect>>
    /\ UNCHANGED <<apiVars, chainVars, inputVars, tabVars, browseVars>>

(***************************************************************************)
(* The browse page (CampaignsPage)                                         *)
(***************************************************************************)
\* String.prototype.toLowerCase
UpperCase == <<"A", "B", "C", "D", "E", "F", "G", "H", "I", "J", "K", "L", "M",
               "N", "O", "P", "Q", "R", "S", "T", "U", "V", "W", "X", "Y", "Z">>
LowerCase == <<"a", "b", "c", "d", "e", "f", "g", "h", "i", "j", "k", "l", "m",
               "n", "o", "p", "q", "r", "s", "t", "u", "v", "w", "x", "y", "z">>

toLowerCase(s) ==
    [k \in 1..Len(s) |->
        IF \E n \in 1..26 : UpperCase[n] = s[k]
        THEN LowerCase[CHOOSE n \in 1..26 : UpperCase[n] = s[k]]
        ELSE s[k]]

\* String.prototype.includes
includes(s, q) ==
    \E k \in 0..(Len(s) - Len(q)) : SubSeq(s, k + 1, k + Len(q)) = q

\* new Date(createdAt).getTime(), in seconds, of the timestamps of the model
getTime(iso) ==
    CASE iso = "2026-01-01T00:00:00.000Z" -> 1767225600
      [] iso = "2026-01-02T00:00:00.000Z" -> 1767312000
      [] iso = "2026-01-03T00:00:00.000Z" -> 1767398400

\* the initial useState values of CampaignsPage
InitialBrowse ==
    [searchQuery |-> <<>>, categoryFilter |-> "all", sortBy |-> "priority",
     priorityOnly |-> FALSE, showFilters |-> FALSE, campaigns |-> <<>>,
     isLoading |-> TRUE, error |-> Null, useBackend |-> TRUE]

\* a comparator of 'funded' that puts the least funded first
Compare_FundedAscending(sortBy, a, b) ==
    CASE sortBy = "newest" -> getTime(b.createdAt) - getTime(a.createdAt)
      [] sortBy = "ending" -> a.daysLeft - b.daysLeft
      [] sortBy = "funded" -> a.raised - b.raised
      [] sortBy = "priority" ->
            IF a.isHighPriority # b.isHighPriority
            THEN (IF a.isHighPriority THEN -1 ELSE 1)
            ELSE a.daysLeft - b.daysLeft

\* the comparator result.sort is called with under each sort option
Compare(sortBy, a, b) ==
    CASE sortBy = "newest" -> getTime(b.createdAt) - getTime(a.createdAt)
      [] sortBy = "ending" -> a.daysLeft - b.daysLeft
      [] sortBy = "funded" -> b.raised - a.raised
      [] sortBy = "priority" ->
            IF a.isHighPriority # b.isHighPriority
            THEN (IF a.isHighPriority THEN -1 ELSE 1)
            ELSE a.daysLeft - b.daysLeft

\* Array.prototype.sort, which is stable: x goes behind the last element
\* that does not have to follow it
InsertSorted(sortBy, sorted, x) ==
    LET behind == {k \in 1..Len(sorted) : Compare(sortBy, sorted[k], x) <= 0}
        at == IF behind = {} THEN 0
              ELSE CHOOSE k \in behind : \A j \in behind : j <= k
    IN  SubSeq(sorted, 1, at) \o <<x>> \o SubSeq(sorted, at + 1, Len(sorted))

RECURSIVE Sort(_, _)
Sort(sortBy, s) ==
    IF s = <<>> THEN <<>>
    ELSE InsertSorted(sortBy, Sort(sortBy, SubSeq(s, 1, Len(s) - 1)), s[Len(s)])

\* a useMemo whose search looks at the title only
FilteredCampaigns_TitleOnly(b) ==
    LET query == toLowerCase(b.searchQuery)
        searched ==
            IF b.searchQuery # <<>>
            THEN SelectSeq(b.campaigns,
                    LAMBDA c : includes(toLowerCase(c.title), query))
            ELSE b.campaigns
        inCategory ==
            IF b.categoryFilter # "all"
            THEN SelectSeq(searched, LAMBDA c : c.category = b.categoryFilter)
            ELSE searched
        urgent ==
            IF b.priorityOnly THEN SelectSeq(inCategory, LAMBDA c : c.isHighPriority)
            ELSE inCategory
    IN  Sort(b.sortBy, urgent)

\* the body of useMemo: search, category and priority filter, then the sort
FilteredCampaigns(b) ==
    LET query == toLowerCase(b.searchQuery)
        searched ==
            IF b.searchQuery # <<>>
            THEN SelectSeq(b.campaigns,
                    LAMBDA c : \/ includes(toLowerCase(c.title), query)
                               \/ includes(toLowerCase(c.description), query))
            ELSE b.campaigns
        inCategory ==
            IF b.categoryFilter # "all"
            THEN SelectSeq(searched, LAMBDA c : c.category = b.categoryFilter)
            ELSE searched
        urgent ==
            IF b.priorityOnly THEN SelectSeq(inCategory, LAMBDA c : c.isHighPriority)
            ELSE inCategory
    IN  Sort(b.sortBy, urgent)

\* a state setter of the page is called; the render that follows runs useMemo
SetBrowse(b) ==
    /\ browse' = b
    /\ filteredCampaigns' = FilteredCampaigns(b)
    /\ UNCHANGED detailPage
    /\ UNCHANGED <<chainVars, apiVars, pageVars, inputVars, submitVars, tabVars>>

\* fetchCampaigns has the campaigns to show
setCampaigns(list) ==
    /\ browse.isLoading
    /\ SetBrowse([browse EXCEPT !.campaigns = list, !.isLoading = FALSE])

\* the controls of the page, shown once it has loaded
setSearchQuery(q) ==
    ~browse.isLoading /\ SetBrowse([browse EXCEPT !.searchQuery = q])

setCategoryFilter(c) ==
    ~browse.isLoading /\ SetBrowse([browse EXCEPT !.categoryFilter = c])

setPriorityOnly(v) ==
    ~browse.isLoading /\ SetBrowse([browse EXCEPT !.priorityOnly = v])

setSortBy(o) ==
    ~browse.isLoading /\ SetBrowse([browse EXCEPT !.sortBy = o])

(***************************************************************************)
(* The pages that show stored campaigns: each converts the records the     *)
(* client returns with its own apiToFrontendCampaign.                      *)
(***************************************************************************)
\* the category names of the form and of the pages, and their characters
Spellings ==
    {"Medical", "Education", "Disaster Relief", "Community",
     "Environment", "Emergency", "Other", "medical",
     "education", "disaster relief", "disaster_relief", "disaster",
     "community", "environment", "emergency", "other"}

Chars(s) ==
    CASE s = "Medical" ->
            <<"M", "e", "d", "i", "c", "a", "l">>
      [] s = "Education" ->
            <<"E", "d", "u", "c", "a", "t", "i", "o", "n">>
      [] s = "Disaster Relief" ->
            <<"D", "i", "s", "a", "s", "t", "e", "r", " ", "R", "e", "l", "i", "e", "f">>
      [] s = "Community" ->
            <<"C", "o", "m", "m", "u", "n", "i", "t", "y">>
      [] s = "Environment" ->
            <<"E", "n", "v", "i", "r", "o", "n", "m", "e", "n", "t">>
      [] s = "Emergency" ->
            <<"E", "m", "e", "r", "g", "e", "n", "c", "y">>
      [] s = "Other" ->
            <<"O", "t", "h", "e", "r">>
      [] s = "medical" ->
            <<"m", "e", "d", "i", "c", "a", "l">>
      [] s = "education" ->
            <<"e", "d", "u", "c", "a", "t", "i", "o", "n">>
      [] s = "disaster relief" ->
            <<"d", "i", "s", "a", "s", "t", "e", "r", " ", "r", "e", "l", "i", "e", "f">>
      [] s = "disaster_relief" ->
            <<"d", "i", "s", "a", "s", "t", "e", "r", "_", "r", "e", "l", "i", "e", "f">>
      [] s = "disaster" ->
            <<"d", "i", "s", "a", "s", "t", "e", "r">>
      [] s = "community" ->
            <<"c", "o", "m", "m", "u", "n", "i", "t", "y">>
      [] s = "environment" ->
            <<"e", "n", "v", "i", "r", "o", "n", "m", "e", "n", "t">>
      [] s = "emergency" ->
            <<"e", "m", "e", "r", "g", "e", "n", "c", "y">>
      [] s = "other" ->
            <<"o", "t", "h", "e", "r">>

Text(chars) == CHOOSE s \in Spellings : Chars(s) = chars

\* String.prototype.replace with a string pattern: the first occurrence only
replace(s, pattern, by) ==
    LET at == {k \in 0..(Len(s) - Len(pattern)) :
                  SubSeq(s, k + 1, k + Len(pattern)) = pattern}
        first == CHOOSE k \in at : \A j \in at : k <= j
    IN  IF at = {} THEN s
        ELSE SubSeq(s, 1, first) \o by \o SubSeq(s, first + Len(pattern) + 1, Len(s))

\* description.split('\n')[0]
FirstLine(s) ==
    LET breaks == {k \in 1..Len(s) : s[k] = "\n"}
    IN  IF breaks = {} THEN s
        ELSE SubSeq(s, 1, (CHOOSE k \in breaks : \A j \in breaks : k <= j) - 1)

\* daysLeft of both converters, for a record without end_date; now is
\* Date.now(), and a duration_days that is null counts as 0
DaysLeft(c, now) ==
    LET days == IF c.duration_days.kind = "number" THEN c.duration_days.num ELSE 0
        left == getTime(c.created_at) + days * 86400 - getTime(now)
    IN  IF left <= 0 THEN 0 ELSE (left + 86399) \div 86400

\* category of the browse converter:
\* apiCampaign.category?.toLowerCase().replace(' ', '_') || 'community'
BrowseCategory(category) ==
    IF category \in {Undefined, Null, ""} THEN "community"
    ELSE Text(replace(toLowerCase(Chars(category)), <<" ">>, <<"_">>))

\* apiToFrontendCampaign of the browse page, as far as the page reads it
apiToFrontendCampaign(c, now) ==
    [id |-> c.id, title |-> c.title, description |-> c.description,
     category |-> BrowseCategory(c.category),
     raised |-> c.raised_amount.num, daysLeft |-> DaysLeft(c, now),
     isHighPriority |-> c.priority = "urgent", createdAt |-> c.created_at]

\* categoryMap of the detail converter; a key it does not have is undefined
categoryMap(key) ==
    CASE key = "medical" -> "medical"
      [] key = "education" -> "education"
      [] key = "disaster relief" -> "disaster"
      [] key = "community" -> "community"
      [] key = "environment" -> "environment"
      [] key = "emergency" -> "emergency"
      [] OTHER -> Undefined

\* category of the detail converter:
\* categoryMap[apiCampaign.category?.toLowerCase()] || 'community'
DetailCategory(category) ==
    IF category \in {Undefined, Null, ""} THEN "community"
    ELSE LET mapped == categoryMap(Text(toLowerCase(Chars(category))))
         IN  IF mapped = Undefined THEN "community" ELSE mapped

\* apiToFrontendCampaign of the detail page, as far as the model reads it
apiToFrontendCampaignDetail(c, now) ==
    [id |-> c.id, title |-> c.title, description |-> FirstLine(c.description),
     category |-> DetailCategory(c.category),
     raised |-> c.raised_amount.num, daysLeft |-> DaysLeft(c, now),
     isHighPriority |-> c.priority = "urgent", createdAt |-> c.created_at]

\* fetchCampaigns of the browse page: api.getCampaigns({ limit: 100 }), each
\* record converted, at clock reading now
fetchCampaigns(now) ==
    LET response == IF hasWindow THEN index ELSE <<>>
    IN  setCampaigns([k \in 1..Len(response) |->
                         apiToFrontendCampaign(response[k], now)])

\* the initial useState values of CampaignDetailPage
InitialDetail ==
    [campaign |-> Null, apiCampaign |-> Null, isLoading |-> TRUE, error |-> Null]

\* fetchCampaign of the detail page of campaign id, at clock reading now; no
\* mock campaign has the id of a content address
fetchCampaign(id, now) ==
    LET found == hasWindow /\ \E k \in 1..Len(index) : index[k].id = id
        response == FindCampaign(id)
    IN  /\ detailPage' =
             IF ~found
             THEN [InitialDetail EXCEPT !.isLoading = FALSE,
                                        !.error = "Campaign not found"]
             ELSE [campaign |-> apiToFrontendCampaignDetail(response, now),
                   apiCampaign |-> response, isLoading |-> FALSE, error |-> Null]
        /\ UNCHANGED <<browse, filteredCampaigns>>
        /\ UNCHANGED <<chainVars, apiVars, pageVars, inputVars, submitVars, tabVars>>

InitBrowse ==
    /\ browse = InitialBrowse
    /\ filteredCampaigns = <<>>
    /\ detailPage = InitialDetail

(***************************************************************************)
(* Part V.  Inputs and specifications                                      *)
(***************************************************************************)
\* texts the user types
HelpMaria == <<"H", "e", "l", "p", " ", "M", "a", "r", "i", "a">>
Hi == <<"H", "i">>
MariaLopez == <<"M", "a", "r", "i", "a", " ", "L", "o", "p", "e", "z">>
MainSt == <<"1", "2", "3", " ", "M", "a", "i", "n", " ", "S", "t">>
RedCross == <<"R", "e", "d", " ", "C", "r", "o", "s", "s">>
Ana == <<"A", "n", "a">>
HighSt == <<"1", " ", "H", "i", "g", "h", " ", "S", "t">>
NeedsHelp == <<"N", "e", "e", "d", "s", " ", "h", "e", "l", "p">>
Surgery == <<"S", "u", "r", "g", "e", "r", "y">>
Amount1000 == <<"1", "0", "0", "0">>
Days30 == <<"3", "0">>

\* the categories of the select
CATEGORIES ==
    {"Medical", "Education", "Disaster Relief", "Community", "Environment",
     "Emergency", "Other"}

\* the files the user can pick
FileNames == {"bill.pdf", "id.png"}

\* the number inputs show the values of their fields
TypedOf(fd) == [targetAmount |-> fd.targetAmount, durationDays |-> fd.durationDays]

InitApi ==
    /\ hasWindow = TRUE
    /\ index = <<>>
    /\ apiRet = NoCall

InitPage ==
    /\ currentStep = 1
    /\ isSubmitting = FALSE
    /\ error = Null
    /\ createdCampaignId = Null
    /\ formData = InitialFormData
    /\ typed = TypedOf(formData)

InitSubmit ==
    /\ pc = "idle"
    /\ sub = InitialFormData
    /\ uploadIdx = 0
    /\ uploadedDocs = <<>>
    /\ requests = <<>>
    /\ redirect = Null

\* the contract alone
InitChainOnly ==
    InitChain /\ InitApi /\ InitPage /\ InitSubmit /\ InitTabs /\ InitBrowse

SpecChain == InitChainOnly /\ [][NextChain]_vars

(* ---- the client called directly ---- *)
MariaRequest ==
    [title |-> HelpMaria, description |-> NeedsHelp, target_amount |-> Num(1000),
     duration_days |-> Num(30), category |-> "Medical", priority |-> Undefined,
     image_url |-> Undefined, beneficiary_name |-> MariaLopez,
     phone_number |-> Rep(10, "5"), residential_address |-> MainSt,
     documents |-> <<>>]

\* a payload whose duration was parsed from an empty input
UndatedRequest ==
    [MariaRequest EXCEPT !.title = Hi, !.duration_days = NaN,
                         !.priority = "urgent", !.category = "Education"]

RedCrossRequest ==
    [title |-> RedCross, description |-> NeedsHelp, target_amount |-> Num(5000),
     duration_days |-> Num(90), category |-> "Medical", priority |-> "normal",
     image_url |-> "https://img.example/a.png", organization_name |-> RedCross,
     contact_person_name |-> Ana, contact_phone_number |-> Rep(10, "5"),
     official_address |-> HighSt, documents |-> <<>>]

IndividualRequests == {MariaRequest, UndatedRequest}
CharityRequests == {RedCrossRequest}

Filters ==
    [campaign_type : {"", "individual", "charity"}, category : {"", "Medical"}]

NextApi ==
    \/ \E d \in IndividualRequests, r \in Responses, t \in Times :
          create("individual", d, r, t)
    \/ \E d \in CharityRequests, r \in Responses, t \in Times :
          create("charity", d, r, t)
    \/ \E f \in Filters : getCampaigns(f)
    \/ \E c \in CIDs \cup {"cid000"} : getCampaign(c)

\* the client runs in a browser or, without window, on the server
InitClient ==
    /\ InitChain /\ InitPage /\ InitSubmit /\ InitTabs /\ InitBrowse
    /\ hasWindow \in BOOLEAN /\ index = <<>> /\ apiRet = NoCall

SpecApi == InitClient /\ [][NextApi]_vars

(* ---- validation of forms the user can have filled in ---- *)
Phones == {<<>>, Rep(9, "5"), Rep(10, " "), Rep(10, "5"), Rep(21, "5")}
AddressesTyped(good) == {<<>>, <<"1", "2", "3", "4">>, Rep(5, " "), good}

IndividualForms ==
    {[InitialFormData EXCEPT
         !.campaignType = "individual", !.title = t, !.category = c,
         !.targetAmount = a, !.description = d, !.beneficiaryName = b,
         !.phoneNumber = ph, !.residentialAddress = ad] :
       t \in {<<>>, Hi, Rep(3, " "), HelpMaria}, c \in {"", "Medical"},
       a \in {<<>>, <<"0">>, <<"-", "5">>, Amount1000}, d \in {<<>>, NeedsHelp},
       b \in {<<>>, <<" ">>, MariaLopez}, ph \in Phones,
       ad \in AddressesTyped(MainSt)}

CharityForms ==
    {[InitialFormData EXCEPT
         !.campaignType = "charity", !.title = t, !.category = c,
         !.targetAmount = a, !.description = d, !.organizationName = o,
         !.contactPersonName = cp, !.contactPhoneNumber = ph,
         !.officialAddress = ad] :
       t \in {<<>>, Hi, Rep(3, " "), HelpMaria}, c \in {"", "Medical"},
       a \in {<<>>, <<"0">>, <<"-", "5">>, Amount1000}, d \in {<<>>, NeedsHelp},
       o \in {<<>>, RedCross}, cp \in {<<>>, <<" ", " ">>, Ana}, ph \in Phones,
       ad \in AddressesTyped(HighSt)}

\* no input is on the page before a campaign type is chosen
FormSamples == {InitialFormData} \cup IndividualForms \cup CharityForms

InitForm ==
    /\ InitChain /\ InitApi /\ InitSubmit /\ InitTabs /\ InitBrowse
    /\ currentStep = 1
    /\ isSubmitting = FALSE
    /\ error = Null
    /\ createdCampaignId = Null
    /\ formData \in FormSamples
    /\ typed = TypedOf(formData)

NextForm ==
    \/ ClickNext
    \/ ClickBack

SpecForm == InitForm /\ [][NextForm]_vars

(* ---- the wizard from its first render, without documents ---- *)
WizardValues(field) ==
    CASE field = "campaignType" -> {"individual", "charity"}
      [] field = "title" -> {<<>>, HelpMaria}
      [] field = "category" -> {"", "Medical"}
      [] field = "targetAmount" -> {<<>>, <<"0">>, Amount1000}
      [] field = "description" -> {<<>>, NeedsHelp}
      [] field = "impactPlan" -> {<<>>, Surgery}
      [] field = "beneficiaryName" -> {<<>>, MariaLopez}
      [] field = "phoneNumber" -> {<<>>, Rep(10, "5")}
      [] field = "residentialAddress" -> {<<>>, MainSt}
      [] field = "organizationName" -> {<<>>, RedCross}
      [] field = "contactPersonName" -> {<<>>, Ana}
      [] field = "contactPhoneNumber" -> {<<>>, Rep(10, "5")}
      [] field = "officialAddress" -> {<<>>, HighSt}

WizardFields ==
    {"campaignType", "title", "category", "targetAmount", "description",
     "impactPlan", "beneficiaryName", "phoneNumber", "residentialAddress",
     "organizationName", "contactPersonName", "contactPhoneNumber",
     "officialAddress"}

NextWizard ==
    \/ \E f \in WizardFields : \E v \in WizardValues(f) : Edit(f, v)
    \/ ClickNext
    \/ ClickBack
    \/ handleSubmit
    \/ \E r \in OkResponses, t \in Times : CreateResolved(r, t)
    \/ \E r \in FailResponses : CreateRejected(r)

InitWizard ==
    InitChain /\ InitApi /\ InitPage /\ InitSubmit /\ InitTabs /\ InitBrowse

SpecWizard == InitWizard /\ [][NextWizard]_vars

(* ---- submission with documents, from a form filled in up to step 4; ---- *)
(* ---- the user leaves the page alone while a submission runs         ---- *)
FilledIndividual ==
    [InitialFormData EXCEPT
        !.campaignType = "individual", !.title = HelpMaria, !.category = "Medical",
        !.targetAmount = Amount1000, !.durationDays = Days30,
        !.description = NeedsHelp, !.beneficiaryName = MariaLopez,
        !.phoneNumber = Rep(10, "5"), !.residentialAddress = MainSt]

FilledCharity ==
    [InitialFormData EXCEPT
        !.campaignType = "charity", !.title = RedCross, !.category = "Medical",
        !.targetAmount = Amount1000, !.description = NeedsHelp,
        !.impactPlan = Surgery, !.organizationName = RedCross,
        !.contactPersonName = Ana, !.contactPhoneNumber = Rep(10, "5"),
        !.officialAddress = HighSt]

InitFilled ==
    /\ InitChain /\ InitApi /\ InitSubmit /\ InitTabs /\ InitBrowse
    /\ currentStep = 4
    /\ isSubmitting = FALSE
    /\ error = Null
    /\ createdCampaignId = Null
    /\ formData \in {FilledIndividual, FilledCharity}
    /\ typed = TypedOf(formData)

FileLists == {<<f>> : f \in FileNames} \cup {<<f, g>> : f \in FileNames, g \in FileNames}

NextSubmit ==
    \/ ~isSubmitting /\ \E fs \in FileLists : handleFileChange(fs)
    \/ ~isSubmitting /\ \E k \in 1..MaxDocs : removeDocument(k)
    \/ ~isSubmitting /\ \E k \in 1..MaxDocs :
          \E t \in INDIVIDUAL_DOCUMENT_TYPES \cup CHARITY_DOCUMENT_TYPES :
             updateDocumentType(k, t)
    \/ ~isSubmitting /\ ClickNext
    \/ ~isSubmitting /\ ClickBack
    \/ handleSubmit
    \/ UploadResolved
    \/ UploadRejected
    \/ \E r \in OkResponses, t \in Times : CreateResolved(r, t)
    \/ \E r \in FailResponses : CreateRejected(r)

SpecSubmit == InitFilled /\ [][NextSubmit]_vars

(* ---- the same, where every network call of a submission is answered ---- *)
\* the await handleSubmit is suspended at resolves or rejects
NetworkSettles ==
    \/ UploadResolved
    \/ UploadRejected
    \/ \E r \in OkResponses, t \in Times : CreateResolved(r, t)
    \/ \E r \in FailResponses : CreateRejected(r)

\* the user adds documents, moves between the steps and submits, again
\* after a submission that failed
NextSubmitLive ==
    \/ ~isSubmitting /\ \E fs \in FileLists : handleFileChange(fs)
    \/ ~isSubmitting /\ ClickNext
    \/ ~isSubmitting /\ ClickBack
    \/ handleSubmit
    \/ NetworkSettles

SpecSubmitLive ==
    InitFilled /\ [][NextSubmitLive]_vars /\ WF_vars(NetworkSettles)

(* ---- the number inputs of step 1, on a form filled in otherwise ---- *)
\* texts the user types into the target amount and the duration input
AmountTexts ==
    {<<>>, <<"a", "b", "c">>, <<"0">>, <<"-", "5">>, <<"0", ".", "5">>,
     <<"1", "2", "a", "b">>, Amount1000}
DurationTexts ==
    {<<>>, <<"0">>, <<"1">>, <<"1", ".", "5">>, Days30, <<"3", "6", "5">>,
     <<"3", "6", "6">>, <<"-", "3">>}

InitNumbers ==
    /\ InitChain /\ InitApi /\ InitSubmit /\ InitTabs /\ InitBrowse
    /\ currentStep = 1
    /\ isSubmitting = FALSE
    /\ error = Null
    /\ createdCampaignId = Null
    /\ formData \in {[FilledIndividual EXCEPT !.durationDays = <<"9", "0">>],
                     FilledCharity}
    /\ typed = TypedOf(formData)

NextNumbers ==
    \/ ~isSubmitting /\ \E t \in AmountTexts : Edit("targetAmount", t)
    \/ ~isSubmitting /\ \E t \in DurationTexts : Edit("durationDays", t)
    \/ ~isSubmitting /\ ClickNext
    \/ ~isSubmitting /\ ClickBack
    \/ handleSubmit
    \/ \E r \in OkResponses, t \in Times : CreateResolved(r, t)
    \/ \E r \in FailResponses : CreateRejected(r)

SpecNumbers == InitNumbers /\ [][NextNumbers]_vars

(* ---- failing create calls: the client called directly, and the ---- *)
(* ---- wizard submitting a form that is filled in                 ---- *)
InitErrors ==
    /\ InitChain /\ InitApi /\ InitSubmit /\ InitTabs /\ InitBrowse
    /\ currentStep = 5
    /\ isSubmitting = FALSE
    /\ error = Null
    /\ createdCampaignId = Null
    /\ formData \in {FilledIndividual, FilledCharity}
    /\ typed = TypedOf(formData)

NextErrors ==
    \/ \E d \in IndividualRequests, r \in Responses, t \in Times :
          create("individual", d, r, t)
    \/ \E d \in CharityRequests, r \in Responses, t \in Times :
          create("charity", d, r, t)
    \/ ClickBack
    \/ ClickNext
    \/ handleSubmit
    \/ \E r \in OkResponses, t \in Times : CreateResolved(r, t)
    \/ \E r \in FailResponses : CreateRejected(r)

SpecErrors == InitErrors /\ [][NextErrors]_vars

(* ---- documents and a change of the campaign type, on a form whose ---- *)
(* ---- fields of both campaign types are filled in                   ---- *)
FilledBoth(type) ==
    [FilledCharity EXCEPT
        !.campaignType = type, !.beneficiaryName = MariaLopez,
        !.phoneNumber = Rep(10, "5"), !.residentialAddress = MainSt]

\* the document types the user picks
PickedTypes == {"medical_bill", "license", "other"}

InitDocuments ==
    /\ InitChain /\ InitApi /\ InitSubmit /\ InitTabs /\ InitBrowse
    /\ currentStep = 4
    /\ isSubmitting = FALSE
    /\ error = Null
    /\ createdCampaignId = Null
    /\ formData \in {FilledBoth("individual"), FilledBoth("charity")}
    /\ typed = TypedOf(formData)

NextDocuments ==
    \/ ~isSubmitting /\ \E v \in {"individual", "charity"} : Edit("campaignType", v)
    \/ ~isSubmitting /\ handleFileChange(<<"bill.pdf">>)
    \/ ~isSubmitting /\ \E k \in 1..MaxDocs : removeDocument(k)
    \/ ~isSubmitting /\ \E k \in 1..MaxDocs : \E t \in PickedTypes :
          updateDocumentType(k, t)
    \/ ~isSubmitting /\ ClickNext
    \/ ~isSubmitting /\ ClickBack
    \/ handleSubmit
    \/ UploadResolved
    \/ UploadRejected
    \/ \E r \in OkResponses, t \in Times : CreateResolved(r, t)
    \/ \E r \in FailResponses : CreateRejected(r)

SpecDocuments == InitDocuments /\ [][NextDocuments]_vars

(* ---- two tabs that create campaigns at the same time ---- *)
InitTwoTabs ==
    InitChain /\ InitApi /\ InitPage /\ InitSubmit /\ InitTabs /\ InitBrowse

NextTabs ==
    \/ \E r \in OkResponses, now \in Times :
          TabRead(1, "individual", MariaRequest, r, now)
    \/ \E r \in OkResponses, now \in Times :
          TabRead(2, "charity", RedCrossRequest, r, now)
    \/ \E t \in Tabs : TabWrite(t)

SpecTabs == InitTwoTabs /\ [][NextTabs]_vars

(* ---- the browse page with a loaded collection ---- *)
\* no collection of more campaigns than this is loaded
MaxList == 3

\* campaigns as fetchCampaigns hands them to setCampaigns
SampleCampaigns ==
    {[id |-> "c1", title |-> <<"A", "i", "d">>,
      description |-> <<"f", "o", "o", "d">>, category |-> "medical",
      raised |-> 10, daysLeft |-> 5, isHighPriority |-> FALSE,
      createdAt |-> "2026-01-01T00:00:00.000Z"],
     [id |-> "c2", title |-> <<"B", "u", "s">>,
      description |-> <<"A", "i", "d", " ", "f", "o", "r", " ", "k", "i", "d", "s">>,
      category |-> "education", raised |-> 50, daysLeft |-> 5,
      isHighPriority |-> TRUE, createdAt |-> "2026-01-02T00:00:00.000Z"],
     [id |-> "c3", title |-> <<"C", "a", "r", "e">>,
      description |-> <<"f", "o", "o", "d">>, category |-> "medical",
      raised |-> 5, daysLeft |-> 2, isHighPriority |-> FALSE,
      createdAt |-> "2026-01-03T00:00:00.000Z"],
     [id |-> "c4", title |-> <<"B", "u", "s">>,
      description |-> <<"c", "a", "r", "e">>, category |-> "medical",
      raised |-> 50, daysLeft |-> 9, isHighPriority |-> TRUE,
      createdAt |-> "2026-01-01T00:00:00.000Z"]}

\* the collections of at most MaxList different campaigns
RECURSIVE Lists(_)
Lists(n) ==
    IF n = 0 THEN {<<>>}
    ELSE Lists(n - 1) \cup
         {Append(l, c) : l \in {m \in Lists(n - 1) : Len(m) = n - 1},
                         c \in SampleCampaigns}

LoadedLists ==
    {l \in Lists(MaxList) : \A i, j \in 1..Len(l) : i # j => l[i].id # l[j].id}

Queries == {<<>>, <<"a", "i", "d">>, <<"B">>}

InitLoading ==
    InitChain /\ InitApi /\ InitPage /\ InitSubmit /\ InitTabs /\ InitBrowse

NextBrowse ==
    \/ \E l \in LoadedLists : setCampaigns(l)
    \/ \E q \in Queries : setSearchQuery(q)
    \/ \E c \in {"all", "medical", "education"} : setCategoryFilter(c)
    \/ \E v \in BOOLEAN : setPriorityOnly(v)
    \/ \E o \in {"newest", "ending", "funded", "priority"} : setSortBy(o)

SpecBrowse == InitLoading /\ [][NextBrowse]_vars

(* ---- campaigns of every category of the form, created and then shown ---- *)
(* ---- by the browse page and by the detail page                       ---- *)
\* the readings of Date.now() when a page loads
Clock == {"2026-01-02T00:00:00.000Z", "2026-01-03T00:00:00.000Z"}

NextPages ==
    \/ \E c \in CATEGORIES, r \in OkResponses, t \in Times :
          create("individual", [MariaRequest EXCEPT !.category = c], r, t)
    \/ \E now \in Clock : fetchCampaigns(now)
    \/ \E id \in CIDs, now \in Clock : fetchCampaign(id, now)

SpecPages == InitLoading /\ [][NextPages]_vars

(***************************************************************************)
(* Properties of the contract                                              *)
(***************************************************************************)
chainState == <<campaignCount, campaigns, balance, events>>

InRange(id) == 1 <= id /\ id <= campaignCount

\* C4: donate(id) succeeds only if 1 <= id <= campaignCount and the campaign
\* is not completed; for id 0, an id above campaignCount or a completed
\* campaign the call reverts.
C4_DonateOnlyInRangeAndOpen ==
    [][tx'.fn = "donate" /\ (~InRange(tx'.id) \/ campaigns[tx'.id].completed)
         => ~tx'.ok /\ tx'.reason # "" /\ UNCHANGED chainState]_chainVars

\* a donate to a completed campaign has reverted
C4_Witness ==
    /\ tx.fn = "donate" /\ ~tx.ok
    /\ InRange(tx.id) /\ campaigns[tx.id].completed
    /\ tx.reason = "Campaign is closed"

\* C5: completeCampaign(id) succeeds only when the caller is the stored
\* creator of the campaign; a call from another address, and any call for an
\* id never created, reverts and leaves completed unchanged.
C5_CompleteOnlyByCreator ==
    [][tx'.fn = "completeCampaign"
         /\ (tx'.sender # campaigns[tx'.id].creator \/ ~InRange(tx'.id))
         => /\ ~tx'.ok
            /\ \A i \in Ids : campaigns'[i].completed = campaigns[i].completed]_chainVars

\* a completeCampaign by a non-creator of an existing, open campaign has reverted
C5_Witness ==
    /\ tx.fn = "completeCampaign" /\ ~tx.ok
    /\ InRange(tx.id) /\ ~campaigns[tx.id].completed
    /\ tx.sender # campaigns[tx.id].creator

\* C6: open -> completed is one-way: once completed is true it is true in
\* every later state, whatever calls follow.
C6_CompletedIsForever ==
    [][\A i \in Ids : campaigns[i].completed => campaigns'[i].completed]_chainVars

\* a call succeeded after some campaign was completed, which is still completed
C6_Witness ==
    /\ \E i \in Ids : campaigns[i].completed
    /\ tx.ok /\ tx.fn \in {"createCampaign", "donate"}

\* C7: a successful donate(id) with payment v adds exactly v to
\* campaigns[id].raised and changes nothing else of any campaign; the goal is
\* no limit: a donate to an open campaign in range succeeds also when raised
\* has reached or passed goal.
C7_DonateAddsExactlyValue ==
    [][tx'.fn = "donate" =>
         /\ tx'.ok =>
              /\ campaigns' = [campaigns EXCEPT
                     ![tx'.id] = [campaigns[tx'.id] EXCEPT !.raised = @ + tx'.value]]
              /\ campaignCount' = campaignCount
         /\ InRange(tx'.id) /\ ~campaigns[tx'.id].completed => tx'.ok]_chainVars

\* a donate succeeded on a campaign whose raised was already above its goal
C7_Witness ==
    /\ tx.fn = "donate" /\ tx.ok /\ tx.value > 0
    /\ campaigns[tx.id].raised - tx.value > campaigns[tx.id].goal
    /\ ~campaigns[tx.id].completed

\* the require conditions of the call, evaluated before the call
FailsRequire(call) ==
    \/ call.fn = "createCampaign" /\ call.goal = 0
    \/ call.fn = "donate" /\ (~InRange(call.id) \/ campaigns[call.id].completed)
    \/ call.fn = "completeCampaign" /\ call.sender # campaigns[call.id].creator

\* C8: a call that fails a require reverts atomically: campaignCount, every
\* campaign record and the balance are as before the call and no event is
\* emitted.
C8_RevertIsAtomic ==
    [][FailsRequire(tx') =>
         /\ ~tx'.ok
         /\ campaignCount' = campaignCount
         /\ campaigns' = campaigns
         /\ balance' = balance
         /\ events' = events]_chainVars

\* a createCampaign with goal 0 has reverted on a contract that holds funds
C8_Witness ==
    /\ tx.fn = "createCampaign" /\ tx.goal = 0 /\ ~tx.ok
    /\ campaignCount > 0 /\ balance > 0 /\ Len(events) > 1

\* the ids in use are exactly 1..campaignCount
IdsAreOneToCount ==
    \A i \in Ids : (campaigns[i] # EmptyCampaign) <=> InRange(i)

\* C9: each successful createCampaign increases campaignCount by one and
\* stores the campaign under the new campaignCount with creator = caller,
\* raised = 0, completed = false; the ids in use are exactly
\* 1..campaignCount; no call decreases campaignCount or overwrites the
\* creator, goal or metadataCID of an existing id.
C9_IdsFromIncrementingCount ==
    /\ []IdsAreOneToCount
    /\ [][/\ campaignCount' >= campaignCount
          /\ \A i \in Ids : InRange(i) =>
                /\ campaigns'[i].creator = campaigns[i].creator
                /\ campaigns'[i].goal = campaigns[i].goal
                /\ campaigns'[i].metadataCID = campaigns[i].metadataCID
          /\ tx'.fn = "createCampaign" /\ tx'.ok =>
                /\ campaignCount' = campaignCount + 1
                /\ campaigns' = [campaigns EXCEPT ![campaignCount + 1] =
                       [creator |-> tx'.sender, goal |-> tx'.goal, raised |-> 0,
                        completed |-> FALSE, metadataCID |-> tx'.cid]]
                /\ campaignCount = 0 => campaigns'[1].creator = tx'.sender]_chainVars

\* a second campaign was created after the first had received a donation
C9_Witness ==
    /\ tx.fn = "createCampaign" /\ tx.ok
    /\ campaignCount = 2
    /\ campaigns[1].raised > 0 /\ campaigns[2].raised = 0

(***************************************************************************)
(* Properties of the wizard and of the client                              *)
(***************************************************************************)
CreateEndpoints == {"/campaigns/individual", "/campaigns/charity"}

IsCreate(req) == req.endpoint \in CreateEndpoints
IsUpload(req) == req.endpoint = "/documents/upload"

\* while handleSubmit runs: every request but the last has succeeded, only
\* the last one can be a create request, and a create request follows one
\* successful upload per document
NothingFollowsAFailure ==
    /\ \A k \in 1..Len(requests) :
          /\ k < Len(requests) => requests[k].status = "ok" /\ IsUpload(requests[k])
          /\ k = Len(requests) => requests[k].status = "pending"
    /\ pc = "creating" =>
          /\ IsCreate(requests[Len(requests)])
          /\ Len(requests) = Len(sub.documents) + 1
          /\ Len(uploadedDocs) = Len(sub.documents)
    /\ pc = "uploading" =>
          /\ IsUpload(requests[Len(requests)])
          /\ Len(requests) = uploadIdx
    /\ pc \in {"idle", "redirected"} => requests = <<>>

\* the step in which an upload fails: handleSubmit ends there
UploadFailureEndsSubmission ==
    pc = "uploading" /\ pc' = "idle" =>
        /\ \A k \in 1..Len(requests) : ~IsCreate(requests[k])
        /\ index' = index
        /\ error' = "Failed to upload document: " \o sub.documents[uploadIdx]
        /\ ~isSubmitting'
        /\ redirect' = redirect
        /\ createdCampaignId' = createdCampaignId

\* C1: fail-fast submission: when the upload of a document fails, no create
\* request is sent to either endpoint, no record is added to the local
\* index, and the submission ends with the error 'Failed to upload
\* document: <filename>'; no request is ever sent after a failed one.
C1_FailFastSubmission ==
    /\ []NothingFollowsAFailure
    /\ [][UploadFailureEndsSubmission]_vars

\* the upload of document 2 of 3 has failed and the submission is over
C1_Witness ==
    /\ formData.documents = <<"bill.pdf", "id.png", "bill.pdf">>
    /\ error = "Failed to upload document: id.png"
    /\ pc = "idle" /\ ~isSubmitting /\ currentStep = 5
    /\ index = <<>> /\ redirect = Null

\* the rules of the steps 'basic info' and 'story', on a create request body
BodyIsValid(req) ==
    LET b == req.body IN
    /\ Trim(b.title) # <<>> /\ Len(b.title) >= 3
    /\ b.category \in CATEGORIES
    /\ b.target_amount.kind = "number" /\ b.target_amount.num > 0
    /\ Len(b.description) >= 10
    /\ IF req.endpoint = "/campaigns/individual"
       THEN /\ Trim(b.beneficiary_name) # <<>>
            /\ Len(b.phone_number) \in 10..20
            /\ Len(b.residential_address) >= 5
       ELSE /\ Trim(b.organization_name) # <<>>
            /\ Trim(b.contact_person_name) # <<>>
            /\ Len(b.contact_phone_number) \in 10..20
            /\ Len(b.official_address) >= 5

\* C2: submission is blocked for invalid data: wherever handleSubmit can be
\* invoked (currentStep = 5) the form data passes validateStep(1) and
\* validateStep(2), and every create request sent carries a payload that
\* violates no rule of the steps 'basic info' and 'story'.
C2_SubmitOnlyValidData ==
    /\ currentStep = 5 =>
          /\ validateStep(1, formData) = Null
          /\ validateStep(2, formData) = Null
    /\ pc # "idle" /\ pc # "redirected" =>
          /\ validateStep(1, sub) = Null
          /\ validateStep(2, sub) = Null
    /\ \A k \in 1..Len(requests) : IsCreate(requests[k]) => BodyIsValid(requests[k])

\* a create request is in flight while the user, back at step 1, has
\* emptied the title
C2_Witness ==
    /\ pc = "creating" /\ IsCreate(requests[Len(requests)])
    /\ currentStep = 1 /\ formData.title = <<>>

\* C3: after a successful createIndividualCampaign or createCharityCampaign
\* the record written to the local index has raised_amount = 0,
\* status = 'active', id = cid = the content address the backend returned,
\* the campaign_type of the call, and the title, description,
\* target_amount, duration_days and category of the request payload.
C3_StoredCampaignOfCreate ==
    apiRet.fn \in {"createIndividualCampaign", "createCharityCampaign"}
        /\ apiRet.ok /\ hasWindow =>
      /\ index # <<>>
      /\ index[1].raised_amount = Num(0)
      /\ index[1].status = "active"
      /\ index[1].id = apiRet.value.cid
      /\ index[1].cid = apiRet.value.cid
      /\ index[1].campaign_type =
            (IF apiRet.fn = "createIndividualCampaign" THEN "individual" ELSE "charity")
      /\ apiRet.arg.endpoint =
            (IF apiRet.fn = "createIndividualCampaign" THEN "/campaigns/individual"
             ELSE "/campaigns/charity")
      /\ index[1].title = apiRet.arg.body.title
      /\ index[1].description = apiRet.arg.body.description
      /\ index[1].target_amount = apiRet.arg.body.target_amount
      /\ index[1].duration_days = apiRet.arg.body.duration_days
      /\ index[1].category = apiRet.arg.body.category

\* an individual campaign was created on top of an earlier record
C3_Witness ==
    /\ apiRet.fn = "createIndividualCampaign" /\ apiRet.ok /\ hasWindow
    /\ Len(index) = 2
    /\ index[1].title = HelpMaria /\ index[1].target_amount = Num(1000)
    /\ index[2].campaign_type = "charity"

\* the first rule of a list that is violated: its message, Null when none is
FirstViolated(rules) ==
    IF \E k \in 1..Len(rules) : rules[k].bad
    THEN rules[CHOOSE k \in 1..Len(rules) :
                  rules[k].bad /\ \A j \in 1..(k - 1) : ~rules[j].bad].msg
    ELSE Null

NumViolated(rules) == Cardinality({k \in 1..Len(rules) : rules[k].bad})

IsBlank(t) == \A k \in 1..Len(t) : t[k] = " "

TargetAmountBad(fd) ==
    \/ Len(fd.targetAmount) = 0
    \/ LET x == parseFloat(fd.targetAmount) IN x.kind = "number" /\ x.num <= 0

\* the rules of step 'basic info' in the order of the claim; strict makes
\* the title, phone and address rules what the claim says they are (a length
\* only), otherwise a blank text violates them too
BasicInfoRules(fd, strict) ==
    LET blank(t) == ~strict /\ IsBlank(t)
        common ==
          << [bad |-> fd.campaignType \notin {"individual", "charity"},
              msg |-> "Please select a campaign type"],
             [bad |-> blank(fd.title) \/ Len(fd.title) < 3,
              msg |-> "Title must be at least 3 characters"],
             [bad |-> fd.category \notin CATEGORIES,
              msg |-> "Please select a category"],
             [bad |-> TargetAmountBad(fd),
              msg |-> "Please enter a valid target amount"] >>
        individual ==
          << [bad |-> IsBlank(fd.beneficiaryName),
              msg |-> "Beneficiary name is required"],
             [bad |-> blank(fd.phoneNumber) \/ Len(fd.phoneNumber) \notin 10..20,
              msg |-> "Phone number must be between 10 and 20 characters"],
             [bad |-> blank(fd.residentialAddress) \/ Len(fd.residentialAddress) < 5,
              msg |-> "Residential address must be at least 5 characters"] >>
        charity ==
          << [bad |-> IsBlank(fd.organizationName),
              msg |-> "Organization name is required"],
             [bad |-> IsBlank(fd.contactPersonName),
              msg |-> "Contact person name is required"],
             [bad |-> blank(fd.contactPhoneNumber)
                        \/ Len(fd.contactPhoneNumber) \notin 10..20,
              msg |-> "Phone number must be between 10 and 20 characters"],
             [bad |-> blank(fd.officialAddress) \/ Len(fd.officialAddress) < 5,
              msg |-> "Official address must be at least 5 characters"] >>
    IN  common \o (IF fd.campaignType = "individual" THEN individual ELSE charity)

\* C10 as stated: with the title rule 'length >= 3', the phone rule 'length
\* in [10,20]' and the address rule 'length >= 5', a form that violates
\* several rules gets the message of the first violated rule.
C10_AsClaimed ==
    currentStep = 1 /\ error # Null /\ NumViolated(BasicInfoRules(formData, TRUE)) >= 2
        => error = FirstViolated(BasicInfoRules(formData, TRUE))

\* C10: step 'basic info' checks its rules in the fixed order campaign type,
\* title (not blank, length >= 3), category, target amount, then beneficiary
\* name, phone (not blank, length in [10,20]), residential address (not
\* blank, length >= 5) or organization name, contact person name, contact
\* phone, official address; the one message set is that of the first
\* violated rule, and the step is left only when no rule is violated.
C10_FirstViolatedRuleWins ==
    /\ currentStep = 1 /\ error # Null
          => error = FirstViolated(BasicInfoRules(formData, FALSE))
    /\ currentStep >= 2 => NumViolated(BasicInfoRules(formData, FALSE)) = 0

\* validation has failed on a form that violates the category rule, the
\* target amount rule and the phone rule: the category message is shown
C10_Witness ==
    /\ currentStep = 1 /\ error = "Please select a category"
    /\ formData.campaignType = "individual"
    /\ formData.targetAmount = <<"0">>
    /\ Len(formData.phoneNumber) = 21
    /\ NumViolated(BasicInfoRules(formData, FALSE)) >= 3

\* a text that denotes a number greater than zero
IsPositiveNumber(text) ==
    /\ ValidFloat(text)
    /\ Head(text) # "-"
    /\ \E k \in 1..Len(text) : text[k] \in Digits \ {"0"}

\* the Continue button was clicked at step 1 and validateStep(1) has run
ValidatedStep1 ==
    /\ currentStep = 1 /\ formData' = formData
    /\ pc' = pc /\ isSubmitting' = isSubmitting
    /\ currentStep' # currentStep \/ (error' # error /\ error' # Null)

\* the checks validateStep(1) makes before the target amount pass
EarlierChecksPass(fd) ==
    /\ fd.campaignType \in {"individual", "charity"}
    /\ ~IsBlank(fd.title) /\ Len(fd.title) >= 3
    /\ fd.category \in CATEGORIES

\* a run of validateStep(1) on a target amount that is not a positive number
RejectsBadAmount ==
    ValidatedStep1 /\ EarlierChecksPass(formData)
                   /\ ~IsPositiveNumber(typed.targetAmount)
        => currentStep' = 1 /\ error' = "Please enter a valid target amount"

\* every create request carries a target_amount above zero
AmountsArePositive ==
    \A k \in 1..Len(requests) : IsCreate(requests[k]) =>
        /\ requests[k].body.target_amount.kind = "number"
        /\ requests[k].body.target_amount.num > 0

C12_DurationInRange ==
    \A k \in 1..Len(requests) : IsCreate(requests[k]) =>
        LET d == requests[k].body.duration_days IN
        d.kind = "number" /\ d.den = 1 /\ d.num >= 1 /\ d.num <= 365

\* C13: round trip: once a successful create has returned content address
\* c and its Stored Campaign is in the local index, getCampaign(c) returns
\* that Stored Campaign, after whatever further create, list and get calls;
\* getCampaign of an id that no record has returns null.
C13_RoundTrip ==
    apiRet.fn = "getCampaign" =>
        /\ \A k \in 1..Len(index) :
              index[k].id = apiRet.arg => apiRet.value = index[k]
        /\ (\A k \in 1..Len(index) : index[k].id # apiRet.arg)
              => apiRet.value = Null

IsCreateCall(ret) == ret.fn \in {"createIndividualCampaign", "createCharityCampaign"}
IsReadCall(ret) == ret.fn \in {"getCampaigns", "getCampaign"}

\* a call of the client in a browser: a successful create puts one record,
\* the one of this call, in front of the records there were; a failed
\* create and a read leave the index as it was
OneRecordInFront ==
    hasWindow =>
      IF IsCreateCall(apiRet') /\ apiRet'.ok
      THEN /\ Len(index') = Len(index) + 1
           /\ \A k \in 1..Len(index) : index'[k + 1] = index[k]
           /\ index'[1].id = apiRet'.value.cid
           /\ index'[1].title = apiRet'.arg.body.title
      ELSE index' = index

\* C14: the local index is ordered newest-first by insertion and each
\* successful creation adds exactly one record: the index is the records of
\* the successful creates in reverse order of completion, whatever their
\* created_at, and a failed create adds no record.
C14_NewestFirstByInsertion == [][OneRecordInFront]_vars

\* the record created last is first although its created_at is the earlier
C14_Witness ==
    /\ hasWindow /\ Len(index) = 2
    /\ IsCreateCall(apiRet) /\ apiRet.ok /\ index[1].id = apiRet.value.cid
    /\ index[1].created_at = "2026-01-01T00:00:00.000Z"
    /\ index[2].created_at = "2026-01-02T00:00:00.000Z"

\* a record passes a filter
Passes(c, filter) ==
    /\ filter.campaign_type # "" => c.campaign_type = filter.campaign_type
    /\ filter.category # "" => c.category = filter.category

\* C16: listCampaigns(filter) returns exactly the records of the local
\* index whose campaign_type equals filter.campaign_type (when given) and
\* whose category equals filter.category (when given), in index order; with
\* no filter it returns the whole index.
C16_ListIsFilteredIndex ==
    apiRet.fn = "getCampaigns" =>
        /\ apiRet.value = SelectSeq(index, LAMBDA c : Passes(c, apiRet.arg))
        /\ apiRet.arg.campaign_type = "" /\ apiRet.arg.category = ""
              => apiRet.value = index

\* the list filtered by type individual and category Medical has left out
\* an individual campaign of another category
C16_Witness ==
    /\ apiRet.fn = "getCampaigns"
    /\ apiRet.arg = [campaign_type |-> "individual", category |-> "Medical"]
    /\ Len(index) = 2 /\ Len(apiRet.value) = 1
    /\ \E k \in 1..2 : index[k].campaign_type = "individual"
                          /\ index[k].category = "Education"

\* a read leaves the stored collection alone, and the list it returns is
\* the list the same call returns in the state it leaves
ReadsAreRepeatable ==
    IsReadCall(apiRet') =>
        /\ index' = index
        /\ apiRet'.fn = "getCampaigns" =>
              apiRet'.value =
                 (IF hasWindow THEN FilterCampaigns(apiRet.arg) ELSE <<>>)'

\* C17: idempotence of reads: listCampaigns called twice with the same
\* filter and no write in between returns the same ordered sequence, and
\* neither listCampaigns nor getCampaign changes the persisted index.
C17_ReadsAreIdempotent == [][ReadsAreRepeatable]_vars

\* a list narrowed by category was returned from an index of two records
C17_Witness ==
    /\ apiRet.fn = "getCampaigns"
    /\ apiRet.arg = [campaign_type |-> "", category |-> "Medical"]
    /\ Len(index) = 2 /\ Len(apiRet.value) = 1

\* the document types allowed for a campaign type
AllowedTypes(type) ==
    IF type = "individual"
    THEN {"medical_bill", "doctor_prescription", "hospital_letter", "id_proof", "other"}
    ELSE {"ngo_certificate", "license", "trust_deed", "other"}

\* C20: every document uploaded during a submission is sent with a
\* document_type of the set allowed for the campaign type of the submission,
\* whatever documents were added, types chosen, steps visited and campaign
\* types selected before.
C20_DocumentTypeOfVariant ==
    \A k \in 1..Len(requests) : IsUpload(requests[k]) =>
        requests[k].body.document_type \in AllowedTypes(sub.campaignType)

\* the message the claim gives for a response that is not ok
ClaimedMessage(r) == IF r.decodable THEN r.detail ELSE "An error occurred"

\* the message for a response that is not ok: the detail of the decoded
\* body, 'HTTP <status>' when it has none, 'An error occurred' when the
\* body cannot be decoded
StatedMessage(r) ==
    IF ~r.decodable THEN "An error occurred"
    ELSE IF r.detail = "" THEN "HTTP " \o r.status
    ELSE r.detail

\* a create call that met a response that is not ok has failed
ClientHasFailed == IsCreateCall(apiRet) /\ ~apiRet.resp.ok

\* a create call of the client fails and leaves the index as it was
FailedCreateKeepsIndex ==
    IsCreateCall(apiRet') /\ ~apiRet'.resp.ok /\ apiRet' # apiRet => index' = index

\* the create call of a submission was rejected
SubmissionRejected == pc = "creating" /\ pc' = "idle"

WizardShowsNoRedirect ==
    /\ index' = index
    /\ redirect' = redirect /\ redirect' = Null
    /\ createdCampaignId' = createdCampaignId
    /\ ~isSubmitting' /\ currentStep' = currentStep

\* C18 as stated: a create call that meets a non-success response fails
\* with the backend's error detail text, or with 'An error occurred' when
\* the body is not decodable; the index is unchanged, the wizard shows the
\* message and does not redirect.
C18_AsClaimed ==
    /\ [](ClientHasFailed =>
             ~apiRet.ok /\ apiRet.error = ClaimedMessage(apiRet.resp))
    /\ [][FailedCreateKeepsIndex]_vars
    /\ [][SubmissionRejected =>
             /\ error' \in {ClaimedMessage(r) : r \in FailResponses}
             /\ WizardShowsNoRedirect]_vars

\* C18: a create call that meets a non-success response fails with the
\* backend's error detail text, with 'HTTP <status>' when the decoded body
\* has no detail, or with 'An error occurred' when the body is not
\* decodable; the index is unchanged, the wizard shows the message and does
\* not redirect.
C18_ErrorOfFailedCreate ==
    /\ [](ClientHasFailed =>
             ~apiRet.ok /\ apiRet.error = StatedMessage(apiRet.resp))
    /\ [][FailedCreateKeepsIndex]_vars
    /\ [][SubmissionRejected =>
             /\ error' \in {StatedMessage(r) : r \in FailResponses}
             /\ WizardShowsNoRedirect]_vars

\* with a record in the index, a direct create has failed on a body that
\* is not decodable and a submission has failed on a body without detail
C18_Witness ==
    /\ ClientHasFailed /\ apiRet.error = "An error occurred"
    /\ Len(index) = 1
    /\ pc = "idle" /\ error = "HTTP 404" /\ redirect = Null /\ ~isSubmitting

\* tab t ends its saveToLocalIndex in this step
TabWrites(t) == tabs[t].at = "read" /\ tabs'[t].at = "idle"

\* what a writer stores is its record in front of the collection it read;
\* the records other writers have stored since it read are not kept
LastWriteWins ==
    \A t \in Tabs : TabWrites(t) =>
        /\ Len(index') = Len(tabs[t].existing) + 1
        /\ index'[1].id = tabs[t].campaign.id
        /\ \A k \in 1..Len(tabs[t].existing) : index'[k + 1] = tabs[t].existing[k]

\* C15: the local index has no concurrency control: when two tabs run
\* saveToLocalIndex at the same time, a writer stores the collection it read
\* with its record added, so that the record another writer stored in
\* between is overwritten and missing although both creations succeeded.
C15_LastWriteWins == [][LastWriteWins]_vars

\* both tabs have saved one campaign and the index holds only one of them
C15_Witness ==
    /\ tabs[1].saved = 1 /\ tabs[2].saved = 1
    /\ tabs[1].at = "idle" /\ tabs[2].at = "idle"
    /\ Len(index) = 1 /\ index[1].campaign_type = "charity"

\* the order of the visible campaigns under each sort option
IsSorted(sortBy, v) ==
    \A i, j \in 1..Len(v) : i < j =>
        CASE sortBy = "newest" -> getTime(v[i].createdAt) >= getTime(v[j].createdAt)
          [] sortBy = "ending" -> v[i].daysLeft <= v[j].daysLeft
          [] sortBy = "funded" -> v[i].raised >= v[j].raised
          [] sortBy = "priority" ->
                /\ v[j].isHighPriority => v[i].isHighPriority
                /\ v[i].isHighPriority = v[j].isHighPriority
                      => v[i].daysLeft <= v[j].daysLeft

\* C19: sort correctness of the browse list: with 'newest' the visible
\* campaigns are in non-increasing created_at order, with 'ending' in
\* non-decreasing days-remaining order, with 'funded' in non-increasing
\* raised order, with 'priority' every high-priority campaign precedes
\* every other one and days-remaining is non-decreasing within each tier.
C19_VisibleListIsSorted ==
    /\ IsSorted(browse.sortBy, filteredCampaigns)
    /\ \A k \in 1..Len(filteredCampaigns) :
          \E n \in 1..Len(browse.campaigns) :
             browse.campaigns[n] = filteredCampaigns[k]

\* three campaigns loaded in another order are shown most funded first
C19_Witness ==
    /\ browse.sortBy = "funded" /\ ~browse.priorityOnly
    /\ Len(filteredCampaigns) = 3
    /\ filteredCampaigns[1].raised = 50 /\ filteredCampaigns[2].raised = 10
    /\ filteredCampaigns[3].raised = 5
    /\ browse.campaigns[1].raised = 10 /\ browse.campaigns[3].raised = 5

\* every record of the stored collection is in the collection of the next
\* state, behind the records added, with the field values it had: its id,
\* cid and campaign_type are the same and its raised_amount is not lower
RecordsAreKept ==
    LET added == Len(index') - Len(index) IN
    /\ added >= 0
    /\ \A k \in 1..Len(index) :
          /\ index'[k + added] = index[k]
          /\ index'[k + added].id = index[k].id
          /\ index'[k + added].cid = index[k].cid
          /\ index'[k + added].campaign_type = index[k].campaign_type
          /\ index'[k + added].raised_amount = index[k].raised_amount

\* C21: no client operation updates or deletes a stored record: after any
\* sequence of create, list and get operations in one browsing context,
\* every record previously in the local index is still present with
\* identical field values, so that its raised_amount never decreases and
\* its id, cid and campaign_type never change.
C21_RecordsAreKept == [][RecordsAreKept]_vars

\* the record of the first creation is found behind the record of a second
\* creation with another id, after a getCampaign has returned it
C21_Witness ==
    /\ hasWindow /\ Len(index) = 2 /\ index[1].id # index[2].id
    /\ apiRet.fn = "getCampaign" /\ apiRet.value = index[2]
    /\ index[2].raised_amount = Num(0)

\* the requests of the submission that runs: request k is the upload of
\* document k of the file list, one request at most is in flight and it is
\* the last one issued, and a create request is the last request, after one
\* successful upload per document, with their results in file-list order
UploadsInFileOrder ==
    LET n == Len(requests) IN
    /\ Cardinality({k \in 1..n : requests[k].status = "pending"}) <= 1
    /\ \A k \in 1..n :
          /\ k < n => requests[k].status = "ok"
          /\ IsUpload(requests[k]) =>
                /\ k <= Len(sub.documents)
                /\ requests[k].body.document = sub.documents[k]
                /\ requests[k].body.document_type = DocTypeAt(sub, k)
          /\ IsCreate(requests[k]) =>
                /\ k = n /\ n = Len(sub.documents) + 1
                /\ \A j \in 1..(k - 1) :
                      IsUpload(requests[j]) /\ requests[j].status = "ok"
                /\ Len(requests[k].body.documents) = Len(sub.documents)
                /\ \A j \in 1..Len(sub.documents) :
                      /\ requests[k].body.documents[j] = UploadResult(requests[j])
                      /\ requests[k].body.documents[j].filename = sub.documents[j]
    /\ Cardinality({k \in 1..n : IsCreate(requests[k])}) <= 1

\* a step of a submission issues one more request, once the one in flight
\* has succeeded, or ends the submission
OneRequestAtATime ==
    requests # <<>> /\ requests' # requests =>
        \/ requests' = <<>>
        \/ /\ Len(requests') = Len(requests) + 1
           /\ requests[Len(requests)].status = "pending"
           /\ \A k \in 1..Len(requests) :
                 requests'[k] = [requests[k] EXCEPT !.status = "ok"]

\* C22: within one submission the document uploads are issued in file-list
\* order with at most one upload in flight: upload i+1 is issued only after
\* upload i has succeeded, each document is attempted at most once, and the
\* create request is sent at most once, only after all uploads succeeded,
\* carrying the upload results in file-list order.
C22_SequentialUploads ==
    /\ []UploadsInFileOrder
    /\ [][OneRequestAtATime]_vars

\* the create request of a submission with two documents is in flight with
\* the results of the two uploads in the order of the file list
C22_Witness ==
    /\ pc = "creating" /\ Len(requests) = 3
    /\ sub.documents = <<"bill.pdf", "id.png">>
    /\ requests[3].body.documents[1].filename = "bill.pdf"
    /\ requests[3].body.documents[2].filename = "id.png"
    /\ requests[1].status = "ok" /\ requests[2].status = "ok"

\* the step is one of the five, the steps 'impact plan', 'documents' and
\* 'review' pass validation whatever the form holds, and Continue advances
\* by one wherever the step shown passes validation
StepsInRange ==
    /\ currentStep \in 1..5
    /\ \A s \in 3..5 : validateStep(s, formData) = Null
    /\ Mounted /\ currentStep < 5 /\ validateStep(currentStep, formData) = Null
          => ENABLED (ClickNext /\ currentStep' = currentStep + 1)

\* Continue and Back on a form: the step moves by one at most; it goes up
\* only where the step shown passes validation and is not the last, it
\* stays with the message of the violated rule where validation fails, and
\* a step back clears the message
OneStepAtATime ==
    /\ currentStep' - currentStep \in {-1, 0, 1}
    /\ currentStep' = currentStep + 1 =>
          validateStep(currentStep, formData) = Null /\ currentStep < 5
    /\ currentStep' = currentStep /\ error' # error =>
          /\ validateStep(currentStep, formData) # Null
          /\ error' = validateStep(currentStep, formData)
          /\ currentStep \in 1..2
    /\ currentStep' = currentStep - 1 => currentStep > 1 /\ error' = Null

\* C23: the wizard's currentStep is always in 1..5 and changes by at most
\* one per action: nextStep advances by exactly one iff
\* validateStep(currentStep) passes and currentStep < 5, and otherwise
\* leaves the step unchanged with an error message set; the steps 'impact
\* plan', 'documents' and 'review' always pass validation; prevStep
\* decrements the step unless it is 1 and always clears the error.
C23_StepNavigation ==
    /\ []StepsInRange
    /\ [][OneStepAtATime]_vars

\* the review step is reached with no impact plan and no document given
C23_Witness ==
    /\ currentStep = 5 /\ error = Null
    /\ formData.impactPlan = <<>> /\ formData.documents = <<>>
    /\ formData.campaignType = "charity"

\* campaign c satisfies every filter that is active in b
SatisfiesFilters(c, b) ==
    /\ b.searchQuery # <<>> =>
          \/ includes(toLowerCase(c.title), toLowerCase(b.searchQuery))
          \/ includes(toLowerCase(c.description), toLowerCase(b.searchQuery))
    /\ b.categoryFilter # "all" => c.category = b.categoryFilter
    /\ b.priorityOnly => c.isHighPriority

\* how often x occurs in the list s
Occurrences(s, x) == Cardinality({k \in 1..Len(s) : s[k] = x})

\* every campaign is visible as often as it is loaded if it satisfies the
\* active filters, and not at all if it does not
VisibleIsPermutation ==
    /\ \A c \in {browse.campaigns[k] : k \in 1..Len(browse.campaigns)}
                \cup {filteredCampaigns[k] : k \in 1..Len(filteredCampaigns)} :
          Occurrences(filteredCampaigns, c) =
             IF SatisfiesFilters(c, browse)
             THEN Occurrences(browse.campaigns, c) ELSE 0
    /\ Len(filteredCampaigns) =
          Cardinality({k \in 1..Len(browse.campaigns) :
                          SatisfiesFilters(browse.campaigns[k], browse)})

\* the controls of the page leave the loaded collection in its order
LoadedIsNotReordered ==
    ~browse.isLoading => browse'.campaigns = browse.campaigns

\* C24: the visible browse list is a permutation of exactly those loaded
\* campaigns that satisfy all active filters: title or description contains
\* the search query case-insensitively (if a query is set), category equals
\* the category filter (if not 'all'), and isHighPriority is true (if
\* priority-only is enabled); no campaign is duplicated or dropped by
\* sorting, and the loaded campaign collection itself is not reordered.
C24_VisibleIsFilteredPermutation ==
    /\ []VisibleIsPermutation
    /\ [][LoadedIsNotReordered]_vars

\* of three campaigns loaded, the search for 'aid' shows the two that have
\* it in the title or, in another case, in the description, most funded
\* first, and the loaded collection is in the order it was loaded in
C24_Witness ==
    /\ browse.searchQuery = <<"a", "i", "d">> /\ browse.sortBy = "funded"
    /\ Len(browse.campaigns) = 3 /\ Len(filteredCampaigns) = 2
    /\ browse.campaigns[1].id = "c3" /\ browse.campaigns[2].id = "c1"
    /\ browse.campaigns[3].id = "c2"
    /\ filteredCampaigns[1].id = "c2" /\ filteredCampaigns[2].id = "c1"

\* the sum of raised over the campaigns 1..n
RECURSIVE SumRaised(_)
SumRaised(n) == IF n = 0 THEN 0 ELSE campaigns[n].raised + SumRaised(n - 1)

\* what the contract holds is what its campaigns have raised
BalanceIsSumOfRaised == balance = SumRaised(campaignCount)

\* no call takes funds out: neither the balance nor the raised of a
\* campaign goes down
NothingIsPaidOut ==
    /\ balance' >= balance
    /\ \A i \in Ids : campaigns'[i].raised >= campaigns[i].raised

\* C25: in every reachable state of the contract its balance equals the sum
\* of raised over all campaigns 1..campaignCount, and each campaign's raised
\* never decreases: no operation withdraws, refunds or transfers funds out.
C25_BalanceIsSumOfRaised ==
    /\ []BalanceIsSumOfRaised
    /\ [][NothingIsPaidOut]_chainVars

\* of two campaigns the second has received a donation above its goal, and
\* the contract holds what the two have raised
C25_Witness ==
    /\ campaignCount = 2 /\ balance = 1200
    /\ campaigns[1].raised = 0 /\ campaigns[2].raised = 1200
    /\ campaigns[2].goal = 1000
    /\ tx.fn = "donate" /\ tx.ok

\* C26: no two records in the local index have the same id, after any
\* sequence of successful create calls, whatever content addresses the
\* backend returns (the same content address for two creations included).
C26_IdsAreUnique ==
    \A i, j \in 1..Len(index) : i # j => index[i].id # index[j].id

\* one type per document
OneTypePerDocument ==
    /\ Len(formData.documentTypes) = Len(formData.documents)
    /\ \A k \in 1..Len(formData.documentTypes) :
          formData.documentTypes[k]
             \in INDIVIDUAL_DOCUMENT_TYPES \cup CHARITY_DOCUMENT_TYPES

\* list a is list b without its element at pos
Without(a, b, pos) ==
    /\ Len(a) = Len(b) - 1
    /\ \A k \in 1..Len(a) : a[k] = IF k < pos THEN b[k] ELSE b[k + 1]

\* a change of the two lists keeps each document with its type: documents
\* are added at the end with type 'other', a document leaves with the type
\* at its index, or one type is replaced where it stands
TypesFollowDocuments ==
    LET docs == formData.documents
        types == formData.documentTypes
        docs2 == formData'.documents
        types2 == formData'.documentTypes
    IN  docs2 # docs \/ types2 # types =>
          \/ /\ Len(docs2) > Len(docs) /\ Len(types2) = Len(docs2)
             /\ SubSeq(docs2, 1, Len(docs)) = docs
             /\ SubSeq(types2, 1, Len(types)) = types
             /\ \A k \in (Len(types) + 1)..Len(types2) : types2[k] = "other"
          \/ \E pos \in 1..Len(docs) :
                Without(docs2, docs, pos) /\ Without(types2, types, pos)
          \/ /\ docs2 = docs /\ Len(types2) = Len(types)
             /\ \E pos \in 1..Len(types) :
                   \A k \in 1..Len(types) : k # pos => types2[k] = types[k]

\* C27: the form's documents list and documentTypes list always have the
\* same length and stay index-aligned, after any sequence of
\* handleFileChange (files added, each with type 'other'),
\* removeDocument(index) and updateDocumentType(index, type) with the index
\* inside the list.
C27_DocumentTypesAligned ==
    /\ []OneTypePerDocument
    /\ [][TypesFollowDocuments]_vars

\* two documents are listed, each with the type chosen for it
C27_Witness ==
    /\ currentStep = 4
    /\ formData.documents = <<"id.png", "bill.pdf">>
    /\ formData.documentTypes = <<"id_proof", "medical_bill">>

\* the step in which handleSubmit ends: the page redirects to the campaign
\* created, with no error, or it shows an error and does not redirect
OneOfTwoOutcomes ==
    isSubmitting /\ ~isSubmitting' =>
        \/ /\ pc' = "redirected" /\ error' = Null
           /\ redirect' # Null /\ createdCampaignId' # Null
           /\ Len(index') = Len(index) + 1
        \/ /\ pc' = "idle" /\ error' # Null /\ error' # ""
           /\ redirect' = Null /\ index' = index

\* isSubmitting is set exactly while handleSubmit runs
SubmittingWhileRunning == isSubmitting <=> pc \in {"uploading", "creating"}

Shown == ~detailPage.isLoading /\ detailPage.error = Null

\* the stored records that have the id
WithId(id) == {k \in 1..Len(index) : index[k].id = id}

\* C29: the browse-page converter and the detail-page converter agree on the
\* category: for every stored campaign whose category is one of the
\* creation form's CATEGORIES, the category the detail page shows is the
\* category the browse page's apiToFrontendCampaign gives for it, and the
\* one the browse page lists the same campaign with.
C29_ConvertersAgreeOnCategory ==
    Shown /\ detailPage.apiCampaign.category \in CATEGORIES =>
        /\ detailPage.campaign.category =
              BrowseCategory(detailPage.apiCampaign.category)
        /\ \A k \in 1..Len(browse.campaigns) :
              /\ browse.campaigns[k].id = detailPage.campaign.id
              /\ Cardinality(WithId(detailPage.campaign.id)) = 1
              => browse.campaigns[k].category = detailPage.campaign.category

\* C30: on-chain donate rejects a zero payment: a donate(id) call with
\* payment 0 on an open campaign in range does not succeed, so that every
\* DonationReceived event carries an amount > 0.
C30_DonateRejectsZero ==
    /\ tx.fn = "donate" /\ tx.value = 0 => ~tx.ok
    /\ \A k \in 1..Len(events) :
          events[k].name = "DonationReceived" => events[k].amount > 0

====
